---- MODULE Spec2Model ----
(***************************************************************************)
(* playwright-repl: the DaemonConnection transport (connection.mjs), the   *)
(* session recorder / player / manager (recorder.mjs) and the REPL command *)
(* loop (repl.mjs), modelled as one state machine.                         *)
(*                                                                         *)
(* JavaScript runs one callback at a time: every action below is one       *)
(* event-loop callback or one continuation of an async function, run from  *)
(* the point where it resumes to its next `await`.                         *)
(***************************************************************************)
EXTENDS Integers, Sequences, FiniteSets, TLC

VARIABLES
    conn,          \* DaemonConnection fields: socket, nextId, callbacks, pendingBuffers
    socks,         \* the net.Socket objects created so far (index = identity)
    calls,         \* the promise returned by send(), per request id
    wire,          \* requests handed to socket.write, in write order
    sess,          \* SessionManager: recorder fields, #player, #step
    players,       \* SessionPlayer objects (index = identity)
    fs,            \* session files on disk
    commandCount,  \* ctx.commandCount
    exited,        \* process.exit status, NotExited while running
    queue,         \* startCommandLoop: commandQueue
    processing,    \* startCommandLoop: processing
    tasks,         \* running async call chains (processQueue / runReplayMode)
    closer,        \* the readline handlers: off, idle, polling (waiting after 'close'), closed
    history,       \* the .repl-history file
    opts,          \* startRepl options
    arrived,       \* history: lines emitted by readline, in order
    invoked,       \* history: lines processLine was called on by a task
    trace,         \* history: session-level observations of the last step
    fstream,       \* framing harness: bytes not yet fed to _onData
    fconsumed,     \* framing harness: bytes already fed
    dispatched,    \* history: messages passed to _dispatch by the harness
    roundtrip,     \* history of the session harness: what was saved and replayed
    noise,         \* history of the connection harness: noise the daemon wrote
    parse          \* parser harness: the tokens of a line and what parseInput made of them

vars == <<conn, socks, calls, wire, sess, players, fs, commandCount, exited,
          queue, processing, tasks, closer, history, opts, arrived, invoked, trace,
          fstream, fconsumed, dispatched, roundtrip, noise, parse>>

----------------------------------------------------------------------------
(* Bounds *)

MaxStream == 5     \* longest byte stream fed to the framing harness
MaxSocks == 2      \* sockets created by connect()
MaxIds == 2        \* requests sent
MaxLines == 2      \* lines emitted by readline
MaxCaptured == 2   \* commands captured by one recording of the session harness
MaxPlayers == 2    \* replays started in the session harness
MaxNoise == 1      \* noise records the daemon writes in the connection harness
MaxFileLines == 3  \* lines of the session file of the load harness
MaxTokens == 3     \* tokens of the line of the parser harness
MaxChars == 4      \* characters of the line of the tokenizer harness

----------------------------------------------------------------------------
(* Bytes.  A buffer is a sequence of bytes; a byte is a short string.      *)

NL == "\n"

\* bytes of an arbitrary stream
RawBytes == {"a", "b", NL}

\* the id field of a response, as it appears on the wire
IdBytes == <<"i1", "i2", "i3", "i4", "i5", "i6">>

\* thrown errors: the message and the value interpolated into it
Err(msg, detail) == [msg |-> msg, detail |-> detail]
NoErr == Err("none", "")
NotExited == 0 - 1
NoFile == <<<<"ENOENT">>>>

----------------------------------------------------------------------------
(* Buffer helpers *)

\* Buffer.indexOf('\n', start): first position >= start holding NL, 0 if none
RECURSIVE IndexOfNL(_, _)
IndexOfNL(buf, start) ==
    IF start > Len(buf) THEN 0
    ELSE IF buf[start] = NL THEN start
    ELSE IndexOfNL(buf, start + 1)

\* Buffer.concat(list)
RECURSIVE BufConcat(_)
BufConcat(list) ==
    IF list = <<>> THEN <<>> ELSE Head(list) \o BufConcat(Tail(list))

\* buffer.slice(from) and buffer.slice(from, to), 1-based inclusive
Slice(buf, from, to) == SubSeq(buf, from, to)

----------------------------------------------------------------------------
(* DaemonConnection._onData: framing.  Returns the new pendingBuffers and  *)
(* the messages handed to _dispatch, in order.                             *)

\* the while loop of _onData: complete records after the first one
RECURSIVE RestMessages(_, _)
RestMessages(buf, start) ==
    LET end == IndexOfNL(buf, start) IN
    IF end = 0 THEN [msgs |-> <<>>, start |-> start]
    ELSE LET r == RestMessages(buf, end + 1) IN
         [msgs |-> <<Slice(buf, start, end - 1)>> \o r.msgs, start |-> r.start]

\* a variant that forgets the buffered head of a split record
OnDataFrames_DropPending(pendingBuffers, buffer) ==
    LET end == IndexOfNL(buffer, 1) IN
    IF end = 0
    THEN [pending |-> <<buffer>>, msgs |-> <<>>]
    ELSE LET r == RestMessages(buffer, end + 1) IN
         [pending |-> <<Slice(buffer, r.start, Len(buffer))>>,
          msgs |-> <<BufConcat(Append(pendingBuffers, Slice(buffer, 1, end - 1)))>> \o r.msgs]

OnDataFrames(pendingBuffers, buffer) ==
    LET end == IndexOfNL(buffer, 1) IN
    IF end = 0
    THEN [pending |-> Append(pendingBuffers, buffer), msgs |-> <<>>]
    ELSE LET r == RestMessages(buffer, end + 1) IN
         [pending |-> <<Slice(buffer, r.start, Len(buffer))>>,
          msgs |-> <<BufConcat(Append(pendingBuffers, Slice(buffer, 1, end - 1)))>> \o r.msgs]

----------------------------------------------------------------------------
(* The world the synchronous code works on: one record holding every       *)
(* variable a callback can touch.  Operators below map worlds to worlds.   *)

World ==
    [conn |-> conn, socks |-> socks, calls |-> calls, wire |-> wire,
     sess |-> sess, players |-> players, fs |-> fs,
     commandCount |-> commandCount, exited |-> exited, trace |-> trace,
     queue |-> queue, processing |-> processing, invoked |-> invoked,
     history |-> history]

Commit(W) ==
    /\ conn' = W.conn
    /\ socks' = W.socks
    /\ calls' = W.calls
    /\ wire' = W.wire
    /\ sess' = W.sess
    /\ players' = W.players
    /\ fs' = W.fs
    /\ commandCount' = W.commandCount
    /\ exited' = W.exited
    /\ trace' = W.trace
    /\ queue' = W.queue
    /\ processing' = W.processing
    /\ invoked' = W.invoked
    /\ history' = W.history

\* the bounds on objects ever created
WithinBounds(W) ==
    /\ Len(W.socks) <= MaxSocks
    /\ Len(W.calls) <= MaxIds

----------------------------------------------------------------------------
(* DaemonConnection (connection.mjs)                                       *)

NewConnection ==
    [socket |-> 0, nextId |-> 1, callbacks |-> {}, pendingBuffers |-> <<>>]

\* socket.destroyed
Destroyed(W, s) == W.socks[s].st \in {"destroyed", "closed"}

\* get connected()
Connected(W) == W.conn.socket # 0 /\ ~Destroyed(W, W.conn.socket)

\* settling a promise that is already settled has no effect
Settle(callsNow, id, status) ==
    IF id \in 1..Len(callsNow) /\ callsNow[id].status = "pending"
    THEN [callsNow EXCEPT ![id].status = status]
    ELSE callsNow

\* a variant whose connect() restarts the id counter
ConnConnect_ResetsIds(W) ==
    [W EXCEPT !.conn.nextId = 1,
              !.socks = Append(@, [st |-> "connecting", connp |-> "pending", inb |-> <<>>])]

\* connect(): net.createConnection and the registration of the handlers
ConnConnect(W) ==
    [W EXCEPT !.socks = Append(@, [st |-> "connecting", connp |-> "pending", inb |-> <<>>])]

\* the connect callback of createConnection
OnConnect(W, s) ==
    [W EXCEPT !.conn.socket = s,
              !.socks[s].st = "open",
              !.socks[s].connp = IF @ = "pending" THEN "resolved" ELSE @]

\* sock.on('error'): only rejects connect() while this.socket is null
OnError(W, s) ==
    IF W.conn.socket = 0
    THEN [W EXCEPT !.socks[s].connp = IF @ = "pending" THEN "rejected" ELSE @]
    ELSE W

RECURSIVE RejectAll(_, _)
RejectAll(callsNow, ids) ==
    IF ids = {} THEN callsNow
    ELSE LET id == CHOOSE i \in ids : TRUE IN
         RejectAll(Settle(callsNow, id, "rejClosed"), ids \ {id})

\* a variant that forgets to reject what was pending
OnClose_NoReject(W, s) ==
    [W EXCEPT !.conn.socket = 0,
              !.conn.callbacks = {},
              !.socks[s].st = "closed"]

\* sock.on('close')
OnClose(W, s) ==
    [W EXCEPT !.conn.socket = 0,
              !.calls = RejectAll(@, W.conn.callbacks),
              !.conn.callbacks = {},
              !.socks[s].st = "closed"]

\* a variant that takes the id before it looks at the connection
ConnSend_AllocatesFirst(W, method, arg) ==
    LET id == W.conn.nextId IN
    IF ~Connected(W)
    THEN [w |-> [W EXCEPT !.conn.nextId = id + 1],
          err |-> Err("Not connected to daemon", ""), id |-> 0]
    ELSE [w |-> [W EXCEPT !.conn.nextId = id + 1,
                          !.conn.callbacks = @ \cup {id},
                          !.calls = Append(@, [status |-> "pending", wcb |-> TRUE,
                                               sock |-> W.conn.socket, answered |-> FALSE]),
                          !.wire = Append(@, [id |-> id, method |-> method, arg |-> arg])],
          err |-> NoErr, id |-> id]

\* a variant that writes the request without registering the call first
ConnSend_WritesUnregistered(W, method, arg) ==
    IF ~Connected(W)
    THEN [w |-> W, err |-> Err("Not connected to daemon", ""), id |-> 0]
    ELSE LET id == W.conn.nextId IN
         [w |-> [W EXCEPT !.conn.nextId = id + 1,
                          !.calls = Append(@, [status |-> "pending", wcb |-> TRUE,
                                               sock |-> W.conn.socket, answered |-> FALSE]),
                          !.wire = Append(@, [id |-> id, method |-> method, arg |-> arg])],
          err |-> NoErr, id |-> id]

\* send(method, params): err is the synchronous throw, id the new request
ConnSend(W, method, arg) ==
    IF ~Connected(W)
    THEN [w |-> W, err |-> Err("Not connected to daemon", ""), id |-> 0]
    ELSE LET id == W.conn.nextId IN
         [w |-> [W EXCEPT !.conn.nextId = id + 1,
                          !.conn.callbacks = @ \cup {id},
                          !.calls = Append(@, [status |-> "pending", wcb |-> TRUE,
                                               sock |-> W.conn.socket, answered |-> FALSE]),
                          !.wire = Append(@, [id |-> id, method |-> method, arg |-> arg])],
          err |-> NoErr, id |-> id]

\* a variant that rejects the send and leaves its entry in the table
OnWritten_KeepsEntry(W, id, failed) ==
    IF failed
    THEN [W EXCEPT !.calls = [Settle(@, id, "rejWrite") EXCEPT ![id].wcb = FALSE]]
    ELSE [W EXCEPT !.calls[id].wcb = FALSE]

\* the callback of socket.write
OnWritten(W, id, failed) ==
    IF failed
    THEN [W EXCEPT !.conn.callbacks = @ \ {id},
                   !.calls = [Settle(@, id, "rejWrite") EXCEPT ![id].wcb = FALSE]]
    ELSE [W EXCEPT !.calls[id].wcb = FALSE]

\* a variant whose close() drops the pending calls instead of leaving them
\* to the 'close' handler
ConnClose_ClearsCallbacks(W) ==
    IF W.conn.socket # 0
    THEN [W EXCEPT !.socks[W.conn.socket].st = IF @ = "open" THEN "destroyed" ELSE @,
                   !.socks[W.conn.socket].inb = <<>>,
                   !.conn.callbacks = {},
                   !.conn.socket = 0]
    ELSE W

\* close()
ConnClose(W) ==
    IF W.conn.socket # 0
    THEN [W EXCEPT !.socks[W.conn.socket].st = IF @ = "open" THEN "destroyed" ELSE @,
                   !.socks[W.conn.socket].inb = <<>>,
                   !.conn.socket = 0]
    ELSE W

\* JSON.parse of one message, as far as _dispatch looks at it
IdOfByte(b) == IF \E i \in 1..Len(IdBytes) : IdBytes[i] = b
               THEN CHOOSE i \in 1..Len(IdBytes) : IdBytes[i] = b
               ELSE 0

ParseMessage(msg) ==
    IF Len(msg) = 2 /\ msg[2] \in {"ok", "er"} /\ (IdOfByte(msg[1]) # 0 \/ msg[1] = "i0")
    THEN [ok |-> TRUE, id |-> IdOfByte(msg[1]), error |-> msg[2] = "er"]
    ELSE IF msg = <<"{}">>
    THEN [ok |-> TRUE, id |-> 0, error |-> FALSE]
    ELSE [ok |-> FALSE, id |-> 0, error |-> FALSE]

\* a variant that completes the oldest pending call whatever the id says
Dispatch_ByArrival(W, msg) ==
    LET obj == ParseMessage(msg) IN
    IF obj.ok /\ obj.id # 0 /\ W.conn.callbacks # {}
    THEN LET first == CHOOSE i \in W.conn.callbacks : \A j \in W.conn.callbacks : i <= j IN
         [W EXCEPT !.conn.callbacks = @ \ {first},
                   !.calls = Settle(@, first, IF obj.error THEN "rejRemote" ELSE "resolved")]
    ELSE W

\* a variant that treats a record it cannot match as fatal
Dispatch_NoiseIsFatal(W, msg) ==
    LET obj == ParseMessage(msg) IN
    IF obj.ok /\ obj.id # 0 /\ obj.id \in W.conn.callbacks
    THEN [W EXCEPT !.conn.callbacks = @ \ {obj.id},
                   !.calls = Settle(@, obj.id, IF obj.error THEN "rejRemote" ELSE "resolved")]
    ELSE [W EXCEPT !.calls = RejectAll(@, W.conn.callbacks),
                   !.conn.callbacks = {}]

\* _dispatch(message)
Dispatch(W, msg) ==
    LET obj == ParseMessage(msg) IN
    IF obj.ok /\ obj.id # 0 /\ obj.id \in W.conn.callbacks
    THEN [W EXCEPT !.conn.callbacks = @ \ {obj.id},
                   !.calls = Settle(@, obj.id, IF obj.error THEN "rejRemote" ELSE "resolved")]
    ELSE W

RECURSIVE DispatchAll(_, _)
DispatchAll(W, msgs) ==
    IF msgs = <<>> THEN W ELSE DispatchAll(Dispatch(W, Head(msgs)), Tail(msgs))

\* _onData(buffer): framing, then _dispatch of every complete message
OnData(W, buffer) ==
    LET f == OnDataFrames(W.conn.pendingBuffers, buffer) IN
    DispatchAll([W EXCEPT !.conn.pendingBuffers = f.pending], f.msgs)

\* what the daemon writes for one response
ResponseBytes(id, kind) == <<IdBytes[id], kind, NL>>

----------------------------------------------------------------------------
(* Socket and daemon events.  A socket is connecting, open, destroyed      *)
(* (socket.destroyed is true, 'close' not yet emitted) or closed.          *)

NoTrace == [ev |-> "none"]

\* the world at the start of a callback
Now == [World EXCEPT !.trace = NoTrace]

Running == exited = NotExited

ReplUnchanged == UNCHANGED <<tasks, closer, opts, arrived>>
HarnessUnchanged == UNCHANGED <<fstream, fconsumed, dispatched, roundtrip, noise, parse>>

\* the connection is established: the connect callback runs
SockConnected(s) ==
    /\ Running
    /\ s \in 1..Len(socks) /\ socks[s].st = "connecting"
    /\ Commit(OnConnect(Now, s))
    /\ ReplUnchanged /\ HarnessUnchanged

\* the connection attempt fails: 'error' is emitted, 'close' will follow
SockConnectFailed(s) ==
    /\ Running
    /\ s \in 1..Len(socks) /\ socks[s].st = "connecting"
    /\ Commit([OnError(Now, s) EXCEPT !.socks[s].st = "destroyed"])
    /\ ReplUnchanged /\ HarnessUnchanged

\* an established connection breaks (the daemon went away, an I/O error):
\* the socket is destroyed; an 'error' event finds connect() already settled
SockLost(s) ==
    /\ Running
    /\ s \in 1..Len(socks) /\ socks[s].st = "open"
    /\ Commit([OnError(Now, s) EXCEPT !.socks[s].st = "destroyed", !.socks[s].inb = <<>>])
    /\ ReplUnchanged /\ HarnessUnchanged

\* 'close' is emitted for a destroyed socket
SockClosed(s) ==
    /\ Running
    /\ s \in 1..Len(socks) /\ socks[s].st = "destroyed"
    /\ Commit(OnClose(Now, s))
    /\ ReplUnchanged /\ HarnessUnchanged

\* the reads the model cuts the incoming bytes into: everything that has
\* arrived, or a single byte (so every split point of a record occurs)
ChunkLens(inb) == IF inb = <<>> THEN {} ELSE {1, Len(inb)}

\* 'data' is emitted with the next k bytes the daemon wrote
SockData(s, k) ==
    /\ Running
    /\ s \in 1..Len(socks) /\ socks[s].st = "open"
    /\ k \in ChunkLens(socks[s].inb)
    /\ Commit(OnData([Now EXCEPT !.socks[s].inb = SubSeq(@, k + 1, Len(@))],
                     SubSeq(socks[s].inb, 1, k)))
    /\ ReplUnchanged /\ HarnessUnchanged

\* the write of request id completes
WriteDone(id) ==
    /\ Running
    /\ id \in 1..Len(calls) /\ calls[id].wcb
    /\ socks[calls[id].sock].st = "open"
    /\ Commit(OnWritten(Now, id, FALSE))
    /\ ReplUnchanged /\ HarnessUnchanged

\* the write of request id fails because its socket was destroyed
WriteFailed(id) ==
    /\ Running
    /\ id \in 1..Len(calls) /\ calls[id].wcb
    /\ socks[calls[id].sock].st \in {"destroyed", "closed"}
    /\ Commit(OnWritten(Now, id, TRUE))
    /\ ReplUnchanged /\ HarnessUnchanged

\* the daemon answers request id, with a result or with an error
DaemonResponds(id, kind) ==
    /\ Running
    /\ id \in 1..Len(calls) /\ ~calls[id].answered
    /\ socks[calls[id].sock].st = "open"
    /\ Commit([Now EXCEPT !.calls[id].answered = TRUE,
                          !.socks[calls[id].sock].inb = @ \o ResponseBytes(id, kind)])
    /\ ReplUnchanged /\ HarnessUnchanged

SocketEvents ==
    \/ \E s \in 1..MaxSocks : SockConnected(s)
    \/ \E s \in 1..MaxSocks : SockConnectFailed(s)
    \/ \E s \in 1..MaxSocks : SockLost(s)
    \/ \E s \in 1..MaxSocks : SockClosed(s)
    \/ \E s \in 1..MaxSocks : \E k \in 1..(3 * (MaxIds + MaxNoise)) : SockData(s, k)
    \/ \E id \in 1..MaxIds : WriteDone(id)
    \/ \E id \in 1..MaxIds : WriteFailed(id)
    \/ \E id \in 1..MaxIds : \E kind \in {"ok", "er"} : DaemonResponds(id, kind)

----------------------------------------------------------------------------
(* Lines.  A line is the sequence of its whitespace-separated words; the   *)
(* word WS stands for leading or trailing blanks.                          *)

WS == " "

\* String.prototype.trim
RECURSIVE TrimLeft(_)
TrimLeft(line) ==
    IF line # <<>> /\ Head(line) = WS THEN TrimLeft(Tail(line)) ELSE line

RECURSIVE TrimRight(_)
TrimRight(line) ==
    IF line # <<>> /\ line[Len(line)] = WS
    THEN TrimRight(SubSeq(line, 1, Len(line) - 1)) ELSE line

Trim(line) == TrimRight(TrimLeft(line))

\* words whose first character is '.'
DotWords == {".help", ".aliases", ".status", ".exit", ".quit", ".reconnect",
             ".record", ".save", ".pause", ".discard", ".replay"}

\* words whose first character is '#'
HashWords == {"# Playwright REPL session", "# recorded <timestamp>", "# note"}

StartsWithDot(line) == line # <<>> /\ line[1] \in DotWords
StartsWithHash(line) == line # <<>> /\ line[1] \in HashWords

\* the name SessionRecorder.start makes up when none is given
AutoName == "session-<timestamp>.pw"

FileNames == {"f1", "f2", "f3", "r1", "ro", AutoName}

\* paths on which mkdirSync or writeFileSync throws
Unwritable == {"ro"}

----------------------------------------------------------------------------
(* SessionRecorder, SessionPlayer, SessionManager (recorder.mjs)           *)

NewSession ==
    [recording |-> FALSE, paused |-> FALSE, filename |-> "", commands |-> <<>>,
     player |-> 0, step |-> FALSE]

\* SessionRecorder.status
RecorderStatus(s) ==
    IF ~s.recording THEN "idle" ELSE IF s.paused THEN "paused" ELSE "recording"

\* SessionPlayer.done
PlayerDone(p) == p.index >= Len(p.commands)

\* SessionManager.mode
Mode(W) ==
    IF W.sess.player # 0 /\ ~PlayerDone(W.players[W.sess.player])
    THEN "replaying"
    ELSE RecorderStatus(W.sess)

\* SessionRecorder.start
RecorderStart(W, filename) ==
    [W EXCEPT !.sess.filename = IF filename = "" THEN AutoName ELSE filename,
              !.sess.commands = <<>>,
              !.sess.recording = TRUE,
              !.sess.paused = FALSE]

\* SessionManager.startRecording
StartRecording(W, filename) ==
    IF Mode(W) # "idle"
    THEN [w |-> W, err |-> Err("Cannot record while", Mode(W))]
    ELSE [w |-> RecorderStart(W, filename), err |-> NoErr]

\* the lines of the file SessionRecorder.save writes
SavedLines(commands) ==
    <<<<"# Playwright REPL session">>, <<"# recorded <timestamp>">>, <<>>>>
        \o commands \o <<<<>>>>

\* what save() returns when it throws
NoResult == [filename |-> "", count |-> 0 - 1]

\* a variant that builds its result after the reset
RecorderSave_ResultAfterReset(W) ==
    IF ~W.sess.recording
    THEN [w |-> W, err |-> Err("Not recording", ""), ret |-> NoResult]
    ELSE IF W.sess.filename \in Unwritable
    THEN [w |-> W, err |-> Err("EACCES", W.sess.filename), ret |-> NoResult]
    ELSE [w |-> [W EXCEPT !.fs[W.sess.filename] = SavedLines(W.sess.commands),
                          !.sess.recording = FALSE,
                          !.sess.commands = <<>>,
                          !.sess.filename = "",
                          !.sess.paused = FALSE],
          err |-> NoErr,
          ret |-> [filename |-> "", count |-> 0]]

\* a variant that resets the recorder before it writes the file
RecorderSave_ResetsFirst(W) ==
    IF ~W.sess.recording
    THEN [w |-> W, err |-> Err("Not recording", ""), ret |-> NoResult]
    ELSE LET W1 == [W EXCEPT !.sess.recording = FALSE,
                             !.sess.commands = <<>>,
                             !.sess.filename = "",
                             !.sess.paused = FALSE]
         IN IF W.sess.filename \in Unwritable
            THEN [w |-> W1, err |-> Err("EACCES", W.sess.filename), ret |-> NoResult]
            ELSE [w |-> [W1 EXCEPT !.fs[W.sess.filename] = SavedLines(W.sess.commands)],
                  err |-> NoErr,
                  ret |-> [filename |-> W.sess.filename, count |-> Len(W.sess.commands)]]

\* SessionRecorder.save: ret is the { filename, count } it returns, err what
\* it throws (the error of the file system when the target cannot be written)
RecorderSave(W) ==
    IF ~W.sess.recording
    THEN [w |-> W, err |-> Err("Not recording", ""), ret |-> NoResult]
    ELSE IF W.sess.filename \in Unwritable
    THEN [w |-> W, err |-> Err("EACCES", W.sess.filename), ret |-> NoResult]
    ELSE [w |-> [W EXCEPT !.fs[W.sess.filename] = SavedLines(W.sess.commands),
                          !.sess.recording = FALSE,
                          !.sess.commands = <<>>,
                          !.sess.filename = "",
                          !.sess.paused = FALSE],
          err |-> NoErr,
          ret |-> [filename |-> W.sess.filename, count |-> Len(W.sess.commands)]]

\* SessionManager.save
Save(W) ==
    IF Mode(W) # "recording" /\ Mode(W) # "paused"
    THEN [w |-> W, err |-> Err("Not recording", ""), ret |-> NoResult]
    ELSE RecorderSave(W)

\* a variant without the mode guard
TogglePause_NoGuard(W) ==
    [w |-> [W EXCEPT !.sess.paused = ~@], err |-> NoErr]

\* SessionManager.togglePause, SessionRecorder.pause
TogglePause(W) ==
    IF Mode(W) # "recording" /\ Mode(W) # "paused"
    THEN [w |-> W, err |-> Err("Not recording", "")]
    ELSE [w |-> [W EXCEPT !.sess.paused = ~@], err |-> NoErr]

\* SessionManager.discard, SessionRecorder.discard
Discard(W) ==
    IF Mode(W) # "recording" /\ Mode(W) # "paused"
    THEN [w |-> W, err |-> Err("Not recording", "")]
    ELSE [w |-> [W EXCEPT !.sess.recording = FALSE,
                          !.sess.commands = <<>>,
                          !.sess.filename = "",
                          !.sess.paused = FALSE],
          err |-> NoErr]

\* a variant that captures meta lines too
Record_KeepsMeta(W, line) ==
    IF ~W.sess.recording \/ W.sess.paused THEN W
    ELSE LET trimmed == Trim(line) IN
         IF trimmed = <<>> THEN W
         ELSE [W EXCEPT !.sess.commands = Append(@, trimmed)]

\* a variant that captures while paused
Record_IgnoresPause(W, line) ==
    IF ~W.sess.recording THEN W
    ELSE LET trimmed == Trim(line) IN
         IF trimmed = <<>> \/ StartsWithDot(trimmed) THEN W
         ELSE [W EXCEPT !.sess.commands = Append(@, trimmed)]

\* SessionManager.record, SessionRecorder.record
Record(W, line) ==
    IF ~W.sess.recording \/ W.sess.paused THEN W
    ELSE LET trimmed == Trim(line) IN
         IF trimmed = <<>> \/ StartsWithDot(trimmed) THEN W
         ELSE [W EXCEPT !.sess.commands = Append(@, trimmed)]

\* a variant that filters the lines as they are in the file, untrimmed
LoadLines_FilterUntrimmed(content) ==
    SelectSeq(content, LAMBDA l : l # <<>> /\ ~StartsWithHash(l))

\* a variant that keeps the comment lines
LoadLines_KeepComments(content) ==
    SelectSeq([i \in 1..Len(content) |-> Trim(content[i])], LAMBDA l : l # <<>>)

\* SessionPlayer.load, for a file that exists
RECURSIVE LoadLines(_)
LoadLines(content) ==
    IF content = <<>> THEN <<>>
    ELSE LET line == Trim(Head(content)) IN
         IF line # <<>> /\ ~StartsWithHash(line)
         THEN <<line>> \o LoadLines(Tail(content))
         ELSE LoadLines(Tail(content))

\* a variant that sets the step flag before it creates the player
StartReplay_SetsStepFirst(W, filename, step) ==
    IF Mode(W) # "idle"
    THEN [w |-> W, err |-> Err("Cannot replay while", Mode(W)), pl |-> 0]
    ELSE IF filename \notin DOMAIN W.fs \/ W.fs[filename] = NoFile
    THEN [w |-> [W EXCEPT !.sess.step = step], err |-> Err("File not found", filename), pl |-> 0]
    ELSE LET pl == Len(W.players) + 1 IN
         [w |-> [W EXCEPT !.players = Append(@, [commands |-> LoadLines(W.fs[filename]),
                                                 index |-> 0]),
                          !.sess.player = pl,
                          !.sess.step = step],
          err |-> NoErr, pl |-> pl]

\* SessionManager.startReplay, new SessionPlayer
StartReplay(W, filename, step) ==
    IF Mode(W) # "idle"
    THEN [w |-> W, err |-> Err("Cannot replay while", Mode(W)), pl |-> 0]
    ELSE IF filename \notin DOMAIN W.fs \/ W.fs[filename] = NoFile
    THEN [w |-> W, err |-> Err("File not found", filename), pl |-> 0]
    ELSE LET pl == Len(W.players) + 1 IN
         [w |-> [W EXCEPT !.players = Append(@, [commands |-> LoadLines(W.fs[filename]),
                                                 index |-> 0]),
                          !.sess.player = pl,
                          !.sess.step = step],
          err |-> NoErr, pl |-> pl]

\* SessionManager.endReplay
EndReplay(W) == [W EXCEPT !.sess.player = 0, !.sess.step = FALSE]

\* a variant whose cursor moves two lines at a time
PlayerNext_Skip(W, pl) ==
    [w |-> [W EXCEPT !.players[pl].index = @ + 2],
     cmd |-> W.players[pl].commands[W.players[pl].index + 1]]

\* SessionPlayer.next, called when not done
PlayerNext(W, pl) ==
    [w |-> [W EXCEPT !.players[pl].index = @ + 1],
     cmd |-> W.players[pl].commands[W.players[pl].index + 1]]

NoOpts == [replay |-> "", step |-> FALSE, record |-> ""]

\* history: nothing saved by a recording, nothing replayed, nothing offered
\* to the current recording
NoRoundTrip ==
    [saved |-> [f \in FileNames |-> NoFile], pl |-> 0, source |-> NoFile, out |-> <<>>,
     offered |-> <<>>, skipped |-> FALSE]

\* the session files on disk when the program starts
InitialFiles ==
    [f \in FileNames |->
        CASE f = "f1" -> <<<<"# note">>, <<>>, <<"snapshot">>, <<WS, "c", "e5">>>>
          [] f = "f2" -> <<<<".replay", "f1">>, <<"snapshot">>>>
          [] f = "f3" -> <<<<"snapshot">>, <<".record", "r1">>>>
          [] OTHER -> NoFile]

\* parseInput returns null
NullArgs == [pos |-> <<>>, opt |-> <<>>, null |-> TRUE]

\* nothing parsed yet
NoParse == [line |-> <<>>, tokens |-> <<>>, args |-> NullArgs, done |-> FALSE]

\* every variable but the files as it is before any component is constructed
BlankProgram ==
    /\ conn = NewConnection
    /\ calls = <<>>
    /\ wire = <<>>
    /\ sess = NewSession
    /\ players = <<>>
    /\ commandCount = 0
    /\ exited = NotExited
    /\ queue = <<>>
    /\ processing = FALSE
    /\ closer = "off"
    /\ history = <<>>
    /\ arrived = <<>>
    /\ invoked = <<>>
    /\ trace = NoTrace
    /\ roundtrip = NoRoundTrip
    /\ noise = <<>>

Blank == BlankProgram /\ fs = InitialFiles /\ parse = NoParse

----------------------------------------------------------------------------
(* processLine and the loops that call it (repl.mjs).  An async call that  *)
(* is suspended at an await is a frame; a task is the stack of frames of   *)
(* one chain of awaits, the innermost call on top.                         *)
(*   startRepl  awaiting conn.connect()             (id = socket)          *)
(*   drain      processQueue awaiting processLine(line)                    *)
(*   rrm        runReplayMode awaiting processLine(cmd)   (pl = player)    *)
(*   rrmstep    runReplayMode awaiting a key press                         *)
(*   replay     processLine('.replay f') awaiting processLine(cmd)         *)
(*   run        processLine awaiting conn.run(args)       (id = request)   *)
(*   stop       handleClose awaiting conn.send('stop')    (id = request)   *)
(*   reconnect  processLine('.reconnect') awaiting connect() (id = socket) *)
(*   reconn     processLine's catch awaiting connect()    (id = socket)    *)
(* A frame whose callee has returned is on top of its stack.  `failed` is  *)
(* history: a command fed by this replay loop failed at run time.          *)

Frame(k, id, pl, line) ==
    [k |-> k, id |-> id, pl |-> pl, line |-> line, failed |-> FALSE]

Top(stack) == stack[Len(stack)]
Pop(stack) == SubSeq(stack, 1, Len(stack) - 1)

\* the call returned without suspending / suspended in frame fr
Returned(W) == [w |-> W, frames |-> <<>>]
Awaiting(W, fr) == [w |-> W, frames |-> <<fr>>]

\* ALIASES (the entries the model's lines use) and parseInput's alias step
ResolveAlias(word) ==
    CASE word = "c" -> "click"
      [] word = "s" -> "snapshot"
      [] word = "q" -> "close"
      [] word = "vt" -> "verify-text"
      [] OTHER -> word

\* ALL_COMMANDS and knownExtras (the entries the model's lines use)
KnownCommands == {"snapshot", "click", "goto", "close", "close-all", "kill-all",
                  "list", "verify-text", "verify-element", "verify-value",
                  "verify-list"}

VerifyCommands == {"verify-text", "verify-element", "verify-value", "verify-list"}

\* verifyToRunCode returns null when the arguments are missing
VerifyTranslates(cmdName, args) ==
    IF cmdName = "verify-text" THEN Len(args) >= 1 ELSE Len(args) >= 2

----------------------------------------------------------------------------
(* parseInput (parser.mjs).  A token is a word <<w>>, an option            *)
(* <<"--", name>> or a negated option <<"--no-", name>>.  Parsed arguments *)
(* are the positional words and a function from the option names present  *)
(* to their values.                                                        *)

\* the characters tokenize tells apart: quotes, blanks, anything else
SQ == "'"
DQ == "\""
TAB == "\t"
Quotes == {SQ, DQ}
Blanks == {" ", TAB}

\* a variant that knows the double quote only
RECURSIVE TokenizeFrom_DoubleOnly(_, _, _, _, _)
TokenizeFrom_DoubleOnly(line, i, tokens, current, inQuote) ==
    IF i > Len(line)
    THEN IF current # <<>> THEN Append(tokens, current) ELSE tokens
    ELSE LET ch == line[i] IN
         IF inQuote # ""
         THEN IF ch = inQuote
              THEN TokenizeFrom_DoubleOnly(line, i + 1, tokens, current, "")
              ELSE TokenizeFrom_DoubleOnly(line, i + 1, tokens, Append(current, ch), inQuote)
         ELSE IF ch = DQ
         THEN TokenizeFrom_DoubleOnly(line, i + 1, tokens, current, ch)
         ELSE IF ch \in Blanks
         THEN IF current # <<>>
              THEN TokenizeFrom_DoubleOnly(line, i + 1, Append(tokens, current), <<>>, "")
              ELSE TokenizeFrom_DoubleOnly(line, i + 1, tokens, current, "")
         ELSE TokenizeFrom_DoubleOnly(line, i + 1, tokens, Append(current, ch), "")

\* the for loop of tokenize, from character i on, and the final push
RECURSIVE TokenizeFrom(_, _, _, _, _)
TokenizeFrom(line, i, tokens, current, inQuote) ==
    IF i > Len(line)
    THEN IF current # <<>> THEN Append(tokens, current) ELSE tokens
    ELSE LET ch == line[i] IN
         IF inQuote # ""
         THEN IF ch = inQuote
              THEN TokenizeFrom(line, i + 1, tokens, current, "")
              ELSE TokenizeFrom(line, i + 1, tokens, Append(current, ch), inQuote)
         ELSE IF ch \in Quotes
         THEN TokenizeFrom(line, i + 1, tokens, current, ch)
         ELSE IF ch \in Blanks
         THEN IF current # <<>>
              THEN TokenizeFrom(line, i + 1, Append(tokens, current), <<>>, "")
              ELSE TokenizeFrom(line, i + 1, tokens, current, "")
         ELSE TokenizeFrom(line, i + 1, tokens, Append(current, ch), "")

\* tokenize(line): a line is its characters, a token the characters it keeps
Tokenize(line) == TokenizeFrom(line, 1, <<>>, <<>>, "")

\* booleanOptions
BooleanOptions == {"headed", "persistent", "extension", "submit", "clear",
                   "fullPage", "includeStatic"}

IsWord(tok) == Len(tok) = 1

\* what the library does before it reads the tokens: every declared
\* boolean is false
MinimistDefaults(bools) == [pos |-> <<>>, opt |-> [b \in bools |-> FALSE]]

\* args[name] = value
SetArg(args, name, value) ==
    [args EXCEPT !.opt = [k \in DOMAIN @ \cup {name} |-> IF k = name THEN value ELSE @[k]]]

\* minimist(tokens, { boolean }): --name, --no-name, --name value
RECURSIVE MinimistFrom(_, _, _)
MinimistFrom(args, tokens, bools) ==
    IF tokens = <<>> THEN args
    ELSE LET tok == Head(tokens)
             rest == Tail(tokens)
         IN IF IsWord(tok)
            THEN MinimistFrom([args EXCEPT !.pos = Append(@, tok[1])], rest, bools)
            ELSE IF tok[1] = "--no-"
            THEN MinimistFrom(SetArg(args, tok[2], FALSE), rest, bools)
            ELSE IF tok[2] \notin bools /\ rest # <<>> /\ IsWord(Head(rest))
            THEN MinimistFrom(SetArg(args, tok[2], Head(rest)[1]), Tail(rest), bools)
            ELSE MinimistFrom(SetArg(args, tok[2], TRUE), rest, bools)

Minimist(tokens, bools) == MinimistFrom(MinimistDefaults(bools), tokens, bools)

\* a variant that removes every declared boolean that is false
ParseTokens_StripsEveryFalse(tokens) ==
    IF tokens = <<>> THEN NullArgs
    ELSE LET first == IF IsWord(tokens[1]) THEN <<ResolveAlias(tokens[1][1])>> ELSE tokens[1]
             args == Minimist(<<first>> \o Tail(tokens), BooleanOptions)
             kept == {k \in DOMAIN args.opt : ~(k \in BooleanOptions /\ args.opt[k] = FALSE)}
         IN [pos |-> args.pos, opt |-> [k \in kept |-> args.opt[k]], null |-> FALSE]

\* parseInput after tokenize: alias, minimist, removal of the booleans that
\* are false and were not negated by a --no- token
ParseTokens(tokens) ==
    IF tokens = <<>> THEN NullArgs
    ELSE LET first == IF IsWord(tokens[1]) THEN <<ResolveAlias(tokens[1][1])>> ELSE tokens[1]
             args == Minimist(<<first>> \o Tail(tokens), BooleanOptions)
             hasExplicitNo(o) == \E i \in 1..Len(tokens) : tokens[i] = <<"--no-", o>>
             kept == {k \in DOMAIN args.opt :
                         ~(k \in BooleanOptions /\ args.opt[k] = FALSE /\ ~hasExplicitNo(k))}
         IN [pos |-> args.pos, opt |-> [k \in kept |-> args.opt[k]], null |-> FALSE]

\* what a session call found and what it left behind
SessionView(W) == [sess |-> W.sess, players |-> W.players, mode |-> Mode(W)]

\* history: the SessionManager call made by a meta-command, r its outcome
Called(ev, W, r) ==
    [w |-> [r.w EXCEPT !.trace = [ev |-> ev, err |-> r.err,
                                  pre |-> SessionView(W), post |-> SessionView(r.w),
                                  fsPre |-> W.fs, fsPost |-> r.w.fs]],
     err |-> r.err, handled |-> TRUE]

\* handleSessionCommand: handled is its return value, err what it throws
HandleSessionCommand(W, line) ==
    IF line[1] = ".record"
    THEN Called("startRecording", W,
                StartRecording(W, IF Len(line) >= 2 THEN line[2] ELSE ""))
    ELSE IF line = <<".save">> THEN Called("save", W, Save(W))
    ELSE IF line = <<".pause">> THEN Called("togglePause", W, TogglePause(W))
    ELSE IF line = <<".discard">> THEN Called("discard", W, Discard(W))
    ELSE [w |-> W, err |-> NoErr, handled |-> FALSE]

RECURSIVE ProcessLine(_, _)
RECURSIVE ReplayLoop(_, _)

\* the while loop of the .replay branch, entered with its frame
ReplayLoop(W, fr) ==
    IF ~PlayerDone(W.players[fr.pl])
    THEN LET nx == PlayerNext(W, fr.pl)
             r == ProcessLine(nx.w, nx.cmd)
         IN [w |-> r.w, frames |-> <<fr>> \o r.frames]
    ELSE Returned(EndReplay(W))

\* the .replay branch of processLine
InlineReplay(W, line) ==
    IF Len(line) < 2 THEN Returned(W)
    ELSE LET sr == StartReplay(W, line[2], FALSE) IN
         IF sr.err # NoErr
         THEN LET W1 == EndReplay(sr.w) IN
              Returned(IF sr.err.msg = "Cannot replay while"
                       THEN [W1 EXCEPT !.trace = [ev |-> "replay-rejected",
                                                  mode |-> sr.err.detail,
                                                  pre |-> SessionView(W),
                                                  post |-> SessionView(W1)]]
                       ELSE [W1 EXCEPT !.trace = [ev |-> "replay-notfound",
                                                  file |-> sr.err.detail,
                                                  pre |-> SessionView(W),
                                                  post |-> SessionView(W1)]])
         ELSE ReplayLoop(sr.w, Frame("replay", 0, sr.pl, line))

\* a variant that forwards command names it does not know
RegularCommand_NoValidation(W, line) ==
    LET cmdName == ResolveAlias(line[1])
        args == Tail(line)
    IN IF cmdName = "kill-all" THEN Returned(ConnClose(W))
       ELSE IF cmdName \in {"close", "close-all"}
       THEN LET sd == ConnSend(W, "stop", <<>>) IN
            Awaiting(sd.w, Frame("stop", sd.id, 0, line))
       ELSE IF cmdName \in VerifyCommands /\ ~VerifyTranslates(cmdName, args)
       THEN Returned(W)
       ELSE LET sd == ConnSend(W, "run", <<cmdName>> \o args) IN
            Awaiting(sd.w, Frame("run", sd.id, 0, line))

\* a variant that does not await conn.run
RegularCommand_NoAwait(W, line) ==
    LET cmdName == ResolveAlias(line[1])
        args == Tail(line)
    IN IF cmdName \notin KnownCommands THEN Returned(W)
       ELSE IF cmdName = "kill-all" THEN Returned(ConnClose(W))
       ELSE IF cmdName \in {"close", "close-all"}
       THEN LET sd == ConnSend(W, "stop", <<>>) IN
            Awaiting(sd.w, Frame("stop", sd.id, 0, line))
       ELSE IF cmdName \in VerifyCommands /\ ~VerifyTranslates(cmdName, args)
       THEN Returned(W)
       ELSE Returned(ConnSend(W, "run", <<cmdName>> \o args).w)

\* the regular-command part of processLine, up to its await
RegularCommand(W, line) ==
    LET cmdName == ResolveAlias(line[1])
        args == Tail(line)
    IN IF cmdName \notin KnownCommands THEN Returned(W)
       ELSE IF cmdName = "kill-all" THEN Returned(ConnClose(W))
       ELSE IF cmdName \in {"close", "close-all"}
       THEN LET sd == ConnSend(W, "stop", <<>>) IN
            Awaiting(sd.w, Frame("stop", sd.id, 0, line))
       ELSE IF cmdName \in VerifyCommands /\ ~VerifyTranslates(cmdName, args)
       THEN Returned(W)
       ELSE LET sd == ConnSend(W, "run", <<cmdName>> \o args) IN
            Awaiting(sd.w, Frame("run", sd.id, 0, line))

\* processLine(ctx, line), from its call to its first await or its return
ProcessLine(W, rawLine) ==
    LET line == Trim(rawLine) IN
    IF line = <<>> THEN Returned(W)
    ELSE IF line \in {<<".help">>, <<"?">>, <<".aliases">>, <<".status">>} THEN Returned(W)
    ELSE IF line \in {<<".exit">>, <<".quit">>}
    THEN Returned([ConnClose(W) EXCEPT !.exited = 0])
    ELSE IF line = <<".reconnect">>
    THEN LET W1 == ConnConnect(ConnClose(W)) IN
         Awaiting(W1, Frame("reconnect", Len(W1.socks), 0, line))
    ELSE LET hs == IF StartsWithDot(line)
                   THEN HandleSessionCommand(W, line)
                   ELSE [w |-> W, err |-> NoErr, handled |-> FALSE]
         IN IF hs.err # NoErr \/ hs.handled THEN Returned(hs.w)
            ELSE IF line[1] = ".replay" THEN InlineReplay(W, line)
            ELSE RegularCommand(W, line)

\* history of replay loops: the command just fed by the loop below failed
MarkFailed(stack) ==
    IF stack # <<>> /\ Top(stack).k \in {"replay", "rrm"}
    THEN [stack EXCEPT ![Len(stack)].failed = TRUE]
    ELSE stack

\* a variant that counts and records the command whatever the outcome
ResumeRun_CountsFailures(W, stack) ==
    LET fr == Top(stack)
        W0 == Record([W EXCEPT !.commandCount = @ + 1], fr.line)
    IN IF fr.id # 0 /\ W.calls[fr.id].status = "resolved"
       THEN [w |-> W0, stack |-> Pop(stack)]
       ELSE IF ~Connected(W)
       THEN LET W1 == ConnConnect(W0) IN
            [w |-> W1,
             stack |-> Append(MarkFailed(Pop(stack)), Frame("reconn", Len(W1.socks), 0, fr.line))]
       ELSE [w |-> W0, stack |-> MarkFailed(Pop(stack))]

\* processLine after `await ctx.conn.run(args)`
ResumeRun(W, stack) ==
    LET fr == Top(stack) IN
    IF fr.id # 0 /\ W.calls[fr.id].status = "resolved"
    THEN [w |-> Record([W EXCEPT !.commandCount = @ + 1], fr.line), stack |-> Pop(stack)]
    ELSE IF ~Connected(W)
    THEN LET W1 == ConnConnect(W) IN
         [w |-> W1,
          stack |-> Append(MarkFailed(Pop(stack)), Frame("reconn", Len(W1.socks), 0, fr.line))]
    ELSE [w |-> W, stack |-> MarkFailed(Pop(stack))]

\* handleClose after `await ctx.conn.send('stop', {})`
ResumeStop(W, stack) ==
    LET fr == Top(stack) IN
    IF fr.id # 0 /\ W.calls[fr.id].status = "resolved"
    THEN [w |-> ConnClose(W), stack |-> Pop(stack)]
    ELSE [w |-> W, stack |-> MarkFailed(Pop(stack))]

\* a variant that sends the failed command again once reconnected
ResumeConnect_Retry(W, stack) ==
    LET fr == Top(stack) IN
    IF fr.k = "reconn" /\ W.socks[fr.id].connp = "resolved"
    THEN LET sd == ConnSend(W, "run", <<ResolveAlias(fr.line[1])>> \o Tail(fr.line)) IN
         [w |-> sd.w, stack |-> Append(Pop(stack), Frame("run", sd.id, 0, fr.line))]
    ELSE [w |-> W, stack |-> Pop(stack)]

\* processLine after `await ctx.conn.connect()`: both outcomes only print
ResumeConnect(W, stack) == [w |-> W, stack |-> Pop(stack)]

\* the .replay loop after `await processLine(ctx, cmd)`
ResumeReplay(W, stack) ==
    LET r == ReplayLoop(W, Top(stack)) IN
    [w |-> r.w, stack |-> Pop(stack) \o r.frames]

\* a variant of the guard that lets every call through
ProcessQueueBusy_Never(isProcessing) == FALSE

\* processQueue: `if (processing) return`
ProcessQueueBusy(isProcessing) == isProcessing

\* a variant that returns from the loop without resetting the flag
DrainLoop_KeepsFlag(W) ==
    IF W.queue # <<>>
    THEN LET line == Head(W.queue)
             r == ProcessLine([W EXCEPT !.queue = Tail(@), !.invoked = Append(@, line)], line)
         IN [w |-> r.w, stack |-> <<Frame("drain", 0, 0, line)>> \o r.frames]
    ELSE [w |-> W, stack |-> <<>>]

\* the while loop of processQueue
DrainLoop(W) ==
    IF W.queue # <<>>
    THEN LET line == Head(W.queue)
             r == ProcessLine([W EXCEPT !.queue = Tail(@), !.invoked = Append(@, line)], line)
         IN [w |-> r.w, stack |-> <<Frame("drain", 0, 0, line)>> \o r.frames]
    ELSE [w |-> [W EXCEPT !.processing = FALSE], stack |-> <<>>]

\* processQueue(), called by the 'line' handler
ProcessQueue(W) ==
    IF ProcessQueueBusy(W.processing) THEN [w |-> W, stack |-> <<>>]
    ELSE DrainLoop([W EXCEPT !.processing = TRUE])

\* a variant whose loop is an `if`: it stops after one line
ResumeDrain_Once(W, stack) ==
    LET line == Trim(Top(stack).line) IN
    [w |-> [(IF line # <<>> THEN [W EXCEPT !.history = Append(@, line)] ELSE W)
               EXCEPT !.processing = FALSE],
     stack |-> <<>>]

\* processQueue after `await processLine(ctx, line)`
ResumeDrain(W, stack) ==
    LET line == Trim(Top(stack).line) IN
    DrainLoop(IF line # <<>> THEN [W EXCEPT !.history = Append(@, line)] ELSE W)

\* the while loop of runReplayMode and what follows it
ReplayModeLoop(W, fr) ==
    IF ~PlayerDone(W.players[fr.pl])
    THEN LET nx == PlayerNext(W, fr.pl)
             r == ProcessLine(nx.w, nx.cmd)
         IN [w |-> r.w, stack |-> <<fr>> \o r.frames]
    ELSE [w |-> [ConnClose(EndReplay(W)) EXCEPT !.exited = 0], stack |-> <<>>]

\* runReplayMode(ctx, replayFile, step), up to its first await
RunReplayMode(W, replayFile, step) ==
    LET sr == StartReplay(W, replayFile, step) IN
    IF sr.err # NoErr
    THEN [w |-> [ConnClose(sr.w) EXCEPT !.exited = 1], stack |-> <<>>]
    ELSE ReplayModeLoop(sr.w, Frame("rrm", 0, sr.pl, <<>>))

\* runReplayMode after `await processLine(ctx, cmd)`
ResumeReplayMode(W, stack) ==
    LET fr == Top(stack) IN
    IF W.sess.step /\ ~PlayerDone(W.players[fr.pl])
    THEN [w |-> W, stack |-> <<[fr EXCEPT !.k = "rrmstep"]>>]
    ELSE ReplayModeLoop(W, fr)

\* startRepl after `await conn.connect()`
ResumeStartRepl(W, stack, o) ==
    IF W.socks[Top(stack).id].connp = "rejected"
    THEN [w |-> [W EXCEPT !.exited = 1], stack |-> <<>>, loop |-> FALSE]
    ELSE LET W1 == IF o.record # "" THEN StartRecording(W, o.record).w ELSE W IN
         IF o.replay # ""
         THEN LET r == RunReplayMode(W1, o.replay, o.step) IN
              [w |-> r.w, stack |-> r.stack, loop |-> FALSE]
         ELSE [w |-> W1, stack |-> <<>>, loop |-> TRUE]

----------------------------------------------------------------------------
(* Framing harness: one byte stream, cut into chunks, fed to _onData of a  *)
(* fresh connection.                                                       *)

RECURSIVE SeqsUpTo(_, _)
SeqsUpTo(S, n) ==
    IF n = 0 THEN {<<>>}
    ELSE LET shorter == SeqsUpTo(S, n - 1) IN
         shorter \cup {Append(q, x) : q \in shorter, x \in S}

FramingInit ==
    /\ Blank
    /\ socks = <<>> /\ tasks = <<>> /\ opts = NoOpts
    /\ fstream \in SeqsUpTo(RawBytes, MaxStream)
    /\ fconsumed = <<>>
    /\ dispatched = <<>>

FeedChunk(k) ==
    /\ k \in 1..Len(fstream)
    /\ LET chunk == SubSeq(fstream, 1, k) IN
       /\ Commit(OnData(Now, chunk))
       /\ dispatched' = dispatched \o OnDataFrames(conn.pendingBuffers, chunk).msgs
       /\ fconsumed' = Append(fconsumed, chunk)
       /\ fstream' = SubSeq(fstream, k + 1, Len(fstream))
    /\ ReplUnchanged /\ UNCHANGED <<roundtrip, noise, parse>>

FramingNext == \E k \in 1..MaxStream : FeedChunk(k)

SpecFraming == FramingInit /\ [][FramingNext]_vars

----------------------------------------------------------------------------
(* Connection harness: the DaemonConnection API called freely, as its unit *)
(* tests do, against the socket and daemon events.                         *)

ConnInit ==
    /\ Blank
    /\ socks = <<>> /\ tasks = <<>> /\ opts = NoOpts
    /\ fstream = <<>> /\ fconsumed = <<>> /\ dispatched = <<>>

\* connect() is called by code that found the connection down
\* (startRepl, .reconnect after close(), processLine after a failure)
ApiConnect ==
    /\ Len(socks) < MaxSocks
    /\ ~Connected(World)
    /\ \A s \in 1..Len(socks) : socks[s].st # "connecting"
    /\ Commit(ConnConnect(Now))
    /\ ReplUnchanged /\ HarnessUnchanged

ApiSend ==
    /\ Len(calls) < MaxIds
    /\ LET r == ConnSend(Now, "run", <<"snapshot">>) IN
       Commit([r.w EXCEPT !.trace = [ev |-> "send", err |-> r.err]])
    /\ ReplUnchanged /\ HarnessUnchanged

ApiClose ==
    /\ Commit([ConnClose(Now) EXCEPT !.trace = [ev |-> "close", socket |-> conn.socket]])
    /\ ReplUnchanged /\ HarnessUnchanged

\* records that are no response to a pending call: not JSON, no id, an id
\* never issued, the id of a call that is settled, and a second response
\* to a call already answered on socket s
NoiseRecords(W, s) ==
    {<<"xx">>, <<"{}">>, <<IdBytes[Len(IdBytes)], "ok">>}
    \cup {<<IdBytes[i], "ok">> : i \in {j \in 1..Len(W.calls) :
              \/ W.calls[j].status # "pending"
              \/ W.calls[j].answered /\ W.calls[j].sock = s}}

\* the daemon writes a record of noise on socket s
DaemonNoise(s, rec) ==
    /\ Len(noise) < MaxNoise
    /\ s \in 1..Len(socks) /\ socks[s].st = "open"
    /\ rec \in NoiseRecords(World, s)
    /\ Commit([Now EXCEPT !.socks[s].inb = @ \o rec \o <<NL>>])
    /\ noise' = Append(noise, [rec |-> rec, sock |-> s,
                               waiting |-> {i \in conn.callbacks : ~calls[i].answered}])
    /\ ReplUnchanged /\ UNCHANGED <<fstream, fconsumed, dispatched, roundtrip, parse>>

ConnNext ==
    \/ ApiConnect
    \/ ApiSend
    \/ ApiClose
    \/ SocketEvents

SpecConn == ConnInit /\ [][ConnNext]_vars

\* the same harness against a daemon that also writes noise
NoiseNext ==
    \/ ConnNext
    \/ \E s \in 1..MaxSocks : \E i \in 1..MaxIds :
          \E rec \in {<<"xx">>, <<"{}">>, <<IdBytes[Len(IdBytes)], "ok">>, <<IdBytes[i], "ok">>} :
             DaemonNoise(s, rec)

SpecNoise == ConnInit /\ [][NoiseNext]_vars


----------------------------------------------------------------------------
(* Session harness: the SessionManager API called freely, as its unit      *)
(* tests do.  roundtrip remembers the lines each saved recording had       *)
(* captured, the commands the last player handed out, the commands offered *)
(* to the last recording while its mode was recording, and whether one was *)
(* offered while it was paused.                                            *)

\* lines offered to record(): commands that processLine ran (known command
\* names, so never a '#' line), padded, blank and meta lines
OfferedLines == {<<"snapshot">>, <<WS, "c", "e5", WS>>, <<WS>>, <<>>, <<".save">>, <<WS, ".save">>}

SessInit ==
    /\ Blank
    /\ socks = <<>> /\ tasks = <<>> /\ opts = NoOpts
    /\ fstream = <<>> /\ fconsumed = <<>> /\ dispatched = <<>>

SessUnchanged == UNCHANGED <<fstream, fconsumed, dispatched, noise, parse>> /\ ReplUnchanged

SessStartRecording(f) ==
    /\ LET r == StartRecording(Now, f) IN
       /\ Commit(Called("startRecording", Now, r).w)
       /\ roundtrip' = IF r.err = NoErr
                       THEN [roundtrip EXCEPT !.offered = <<>>, !.skipped = FALSE]
                       ELSE roundtrip
    /\ SessUnchanged

\* a command line: what processLine hands to record() after a command ran
IsCommandLine(l) == Trim(l) # <<>> /\ ~StartsWithDot(Trim(l))

SessRecord(l) ==
    /\ Len(sess.commands) < MaxCaptured
    /\ Commit(Record(Now, l))
    /\ roundtrip' = IF ~IsCommandLine(l) THEN roundtrip
                    ELSE IF Mode(World) = "recording"
                    THEN [roundtrip EXCEPT !.offered = Append(@, Trim(l))]
                    ELSE IF Mode(World) = "paused"
                    THEN [roundtrip EXCEPT !.skipped = TRUE]
                    ELSE roundtrip
    /\ SessUnchanged

SessTogglePause ==
    /\ Commit(Called("togglePause", Now, TogglePause(Now)).w)
    /\ UNCHANGED roundtrip /\ SessUnchanged

SessSave ==
    /\ LET r == Save(Now) IN
       /\ Commit([Called("save", Now, r).w EXCEPT !.trace = [ret |-> r.ret] @@ @])
       /\ roundtrip' = IF r.err = NoErr
                       THEN [roundtrip EXCEPT !.saved[sess.filename] = sess.commands]
                       ELSE roundtrip
    /\ SessUnchanged

SessDiscard ==
    /\ Commit(Called("discard", Now, Discard(Now)).w)
    /\ UNCHANGED roundtrip /\ SessUnchanged

SessStartReplay(f) ==
    /\ Len(players) < MaxPlayers
    /\ LET r == StartReplay(Now, f, FALSE) IN
       /\ Commit([r.w EXCEPT !.trace = [ev |-> "startReplay", err |-> r.err]])
       /\ roundtrip' = IF r.err = NoErr
                       THEN [roundtrip EXCEPT !.pl = r.pl, !.out = <<>>,
                                              !.source = roundtrip.saved[f]]
                       ELSE roundtrip
    /\ SessUnchanged

\* the replay loop: while (!player.done) player.next()
SessNext ==
    /\ roundtrip.pl # 0 /\ ~PlayerDone(players[roundtrip.pl])
    /\ LET nx == PlayerNext(Now, roundtrip.pl) IN
       /\ Commit(nx.w)
       /\ roundtrip' = [roundtrip EXCEPT !.out = Append(@, nx.cmd)]
    /\ SessUnchanged

SessEndReplay ==
    /\ Commit(EndReplay(Now))
    /\ UNCHANGED roundtrip /\ SessUnchanged

SessionNext ==
    \/ \E f \in {"r1"} : SessStartRecording(f)
    \/ \E l \in OfferedLines : SessRecord(l)
    \/ SessTogglePause
    \/ SessSave
    \/ SessDiscard
    \/ \E f \in {"f1", "r1", "r2"} : SessStartReplay(f)
    \/ SessNext
    \/ SessEndReplay

SpecSession == SessInit /\ [][SessionNext]_vars

----------------------------------------------------------------------------
(* Save harness: recordings whose target may be unwritable, saved and      *)
(* discarded through the meta-commands of processLine.                     *)

\* processLine on a meta-command that returns without suspending
SessMetaLine(line) ==
    /\ LET r == ProcessLine(Now, line) IN
       r.frames = <<>> /\ Commit(r.w)
    /\ UNCHANGED roundtrip /\ SessUnchanged

SaveNext ==
    \/ \E f \in {"r1", "ro"} : SessStartRecording(f)
    \/ \E l \in {<<"snapshot">>, <<WS, "c", "e5", WS>>} : SessRecord(l)
    \/ \E line \in {<<".pause">>, <<".save">>, <<".discard">>} : SessMetaLine(line)

SpecSave == SessInit /\ [][SaveNext]_vars

----------------------------------------------------------------------------
(* Load harness: players created on a session file of any content.         *)

\* lines a session file may hold: blank, comment, indented comment, command,
\* padded command, command with a '#' word that is not its first
FileLines == {<<>>, <<WS>>, <<"# note">>, <<WS, "# note">>, <<"snapshot">>,
              <<WS, "c", "e5", WS>>, <<"c", "# note">>}

LoadInit ==
    /\ BlankProgram
    /\ socks = <<>> /\ tasks = <<>> /\ opts = NoOpts
    /\ fstream = <<>> /\ fconsumed = <<>> /\ dispatched = <<>>
    /\ parse = NoParse
    /\ \E content \in SeqsUpTo(FileLines, MaxFileLines) :
          fs = [InitialFiles EXCEPT !["f2"] = content]

LoadNext ==
    \/ SessStartReplay("f2")
    \/ SessNext
    \/ SessEndReplay

SpecLoad == LoadInit /\ [][LoadNext]_vars

----------------------------------------------------------------------------
(* Parser harness: parseInput applied to a line of any tokens.             *)

LineTokens == {<<"click">>, <<"e5">>, <<"--", "headed">>, <<"--no-", "headed">>,
               <<"--", "fullPage">>, <<"--no-", "fullPage">>, <<"--", "filename">>}

ParseInit ==
    /\ BlankProgram /\ fs = InitialFiles
    /\ socks = <<>> /\ tasks = <<>> /\ opts = NoOpts
    /\ fstream = <<>> /\ fconsumed = <<>> /\ dispatched = <<>>
    /\ \E t \in SeqsUpTo(LineTokens, MaxTokens) :
          parse = [NoParse EXCEPT !.tokens = t]

ParseLine ==
    /\ ~parse.done
    /\ parse' = [parse EXCEPT !.args = ParseTokens(parse.tokens), !.done = TRUE]
    /\ Commit(Now) /\ ReplUnchanged
    /\ UNCHANGED <<fstream, fconsumed, dispatched, roundtrip, noise>>

ParseNext == ParseLine

SpecParse == ParseInit /\ [][ParseNext]_vars

----------------------------------------------------------------------------
(* Tokenizer harness: tokenize applied to a line of any characters.        *)

LineChars == {"a", " ", TAB, SQ, DQ}

TokenizeInit ==
    /\ BlankProgram /\ fs = InitialFiles
    /\ socks = <<>> /\ tasks = <<>> /\ opts = NoOpts
    /\ fstream = <<>> /\ fconsumed = <<>> /\ dispatched = <<>>
    /\ \E l \in SeqsUpTo(LineChars, MaxChars) : parse = [NoParse EXCEPT !.line = l]

TokenizeLine ==
    /\ ~parse.done
    /\ parse' = [parse EXCEPT !.tokens = Tokenize(parse.line), !.done = TRUE]
    /\ Commit(Now) /\ ReplUnchanged
    /\ UNCHANGED <<fstream, fconsumed, dispatched, roundtrip, noise>>

TokenizeNext == TokenizeLine

SpecTokenize == TokenizeInit /\ [][TokenizeNext]_vars

----------------------------------------------------------------------------
(* The REPL: startRepl, the command loop, replay mode                      *)

\* the lines readline can emit
InputLines ==
    {<<"snapshot">>, <<WS, "c", "e5">>, <<"bogus">>, <<>>, <<"verify-text">>,
     <<".status">>, <<".record", "r1">>, <<".save">>, <<".pause">>, <<".discard">>,
     <<".replay">>, <<".replay", "f1">>, <<".replay", "f2">>, <<".replay", "f3">>,
     <<".replay", "r1">>, <<".reconnect">>, <<".exit">>, <<"q">>, <<"kill-all">>}

\* the command lines the program can be started with
OptsSet ==
    {[replay |-> "", step |-> FALSE, record |-> r] : r \in {"", "r1"}}
    \cup {[replay |-> f, step |-> st, record |-> r] :
             f \in {"f1", "f2", "f3", "r1"}, st \in BOOLEAN, r \in {"", "r1"}}

\* startRepl has created the connection and awaits conn.connect()
Init ==
    /\ Blank
    /\ fstream = <<>> /\ fconsumed = <<>> /\ dispatched = <<>>
    /\ socks = <<[st |-> "connecting", connp |-> "pending", inb |-> <<>>]>>
    /\ tasks = <<<<Frame("startRepl", 1, 0, <<>>)>>>>
    /\ opts \in OptsSet

RemoveAt(seq, i) == SubSeq(seq, 1, i - 1) \o SubSeq(seq, i + 1, Len(seq))

\* a task ran from its resumption to its next await
TaskRan(t, r) ==
    /\ WithinBounds(r.w)
    /\ Commit(r.w)
    /\ tasks' = IF r.stack = <<>> THEN RemoveAt(tasks, t) ELSE [tasks EXCEPT ![t] = r.stack]

TopIs(t, kinds) == t \in 1..Len(tasks) /\ Top(tasks[t]).k \in kinds

CallSettled(id) == IF id = 0 THEN TRUE ELSE calls[id].status # "pending"

\* startRepl resumes after conn.connect()
ReplStarts(t) ==
    /\ Running /\ TopIs(t, {"startRepl"})
    /\ socks[Top(tasks[t]).id].connp # "pending"
    /\ LET r == ResumeStartRepl(Now, tasks[t], opts) IN
       /\ TaskRan(t, r)
       /\ closer' = IF r.loop THEN "idle" ELSE closer
    /\ UNCHANGED <<opts, arrived>> /\ HarnessUnchanged

\* rl.on('line'): push, then processQueue()
LineArrives(l) ==
    /\ Running /\ closer = "idle"
    /\ Len(arrived) < MaxLines
    /\ LET r == ProcessQueue([Now EXCEPT !.queue = Append(@, l)]) IN
       /\ WithinBounds(r.w)
       /\ Commit(r.w)
       /\ tasks' = IF r.stack = <<>> THEN tasks ELSE Append(tasks, r.stack)
    /\ arrived' = Append(arrived, l)
    /\ UNCHANGED <<closer, opts>> /\ HarnessUnchanged

\* processQueue resumes after processLine returned
DrainContinues(t) ==
    /\ Running /\ TopIs(t, {"drain"})
    /\ TaskRan(t, ResumeDrain(Now, tasks[t]))
    /\ UNCHANGED <<closer, opts, arrived>> /\ HarnessUnchanged

\* processLine resumes after conn.run settled
RunSettled(t) ==
    /\ Running /\ TopIs(t, {"run"})
    /\ CallSettled(Top(tasks[t]).id)
    /\ TaskRan(t, ResumeRun(Now, tasks[t]))
    /\ UNCHANGED <<closer, opts, arrived>> /\ HarnessUnchanged

\* handleClose resumes after conn.send('stop') settled
StopSettled(t) ==
    /\ Running /\ TopIs(t, {"stop"})
    /\ CallSettled(Top(tasks[t]).id)
    /\ TaskRan(t, ResumeStop(Now, tasks[t]))
    /\ UNCHANGED <<closer, opts, arrived>> /\ HarnessUnchanged

\* processLine resumes after conn.connect() settled
ConnectSettled(t) ==
    /\ Running /\ TopIs(t, {"reconnect", "reconn"})
    /\ socks[Top(tasks[t]).id].connp # "pending"
    /\ TaskRan(t, ResumeConnect(Now, tasks[t]))
    /\ UNCHANGED <<closer, opts, arrived>> /\ HarnessUnchanged

\* the .replay loop resumes after the replayed command returned
ReplayContinues(t) ==
    /\ Running /\ TopIs(t, {"replay"})
    /\ TaskRan(t, ResumeReplay(Now, tasks[t]))
    /\ UNCHANGED <<closer, opts, arrived>> /\ HarnessUnchanged

\* runReplayMode resumes after the replayed command returned
ReplayModeContinues(t) ==
    /\ Running /\ TopIs(t, {"rrm"})
    /\ TaskRan(t, ResumeReplayMode(Now, tasks[t]))
    /\ UNCHANGED <<closer, opts, arrived>> /\ HarnessUnchanged

\* a key press ends the wait of step mode
StdinData(t) ==
    /\ Running /\ TopIs(t, {"rrmstep"})
    /\ TaskRan(t, ReplayModeLoop(Now, [Top(tasks[t]) EXCEPT !.k = "rrm"]))
    /\ UNCHANGED <<closer, opts, arrived>> /\ HarnessUnchanged

\* a variant of the wait that looks at the queue only
StillDraining_QueueOnly(W) == W.queue # <<>>

\* the 'close' handler: `while (processing || commandQueue.length > 0)`
StillDraining(W) == W.processing \/ W.queue # <<>>

\* the 'close' handler after its wait: conn.close(), process.exit(0)
Shutdown(W) == [ConnClose(W) EXCEPT !.exited = 0, !.trace = [ev |-> "shutdown"]]

\* rl.on('close'): end of input
RlClose ==
    /\ Running /\ closer = "idle"
    /\ IF StillDraining(Now)
       THEN Commit(Now) /\ closer' = "polling"
       ELSE Commit(Shutdown(Now)) /\ closer' = "closed"
    /\ UNCHANGED <<tasks, opts, arrived>> /\ HarnessUnchanged

\* the 50 ms timer of the 'close' handler finds the loop idle
CloseTimer ==
    /\ Running /\ closer = "polling"
    /\ ~StillDraining(Now)
    /\ Commit(Shutdown(Now))
    /\ UNCHANGED <<tasks, closer, opts, arrived>> /\ HarnessUnchanged

MaxTasks == MaxLines + 1

Next ==
    \/ \E t \in 1..MaxTasks : ReplStarts(t)
    \/ \E l \in InputLines : LineArrives(l)
    \/ \E t \in 1..MaxTasks : DrainContinues(t)
    \/ \E t \in 1..MaxTasks : RunSettled(t)
    \/ \E t \in 1..MaxTasks : StopSettled(t)
    \/ \E t \in 1..MaxTasks : ConnectSettled(t)
    \/ \E t \in 1..MaxTasks : ReplayContinues(t)
    \/ \E t \in 1..MaxTasks : ReplayModeContinues(t)
    \/ \E t \in 1..MaxTasks : StdinData(t)
    \/ RlClose
    \/ CloseTimer
    \/ SocketEvents

Spec == Init /\ [][Next]_vars

----------------------------------------------------------------------------
(* Claims about the transport                                              *)

\* C4: when 'close' is emitted for a socket (after close() or after the
\* remote end went away), every call in the pending table is rejected with
\* 'Connection closed' and the table is empty afterwards.
CloseRejectsAllPending ==
    [][\A s \in 1..Len(socks) :
          (socks[s].st = "destroyed" /\ socks'[s].st = "closed")
          => /\ conn'.callbacks = {}
             /\ \A id \in conn.callbacks :
                   calls[id].status = "pending" /\ calls'[id].status = "rejClosed"]_vars

\* two calls were outstanding when the channel closed
TwoCallsRejectedByClose ==
    /\ conn.callbacks = {}
    /\ \E s \in 1..Len(socks) : socks[s].st = "closed"
    /\ \E i, j \in 1..Len(calls) :
          i # j /\ calls[i].status = "rejClosed" /\ calls[j].status = "rejClosed"

\* C5: whatever the cuts, the messages handed to _dispatch are those of the
\* same bytes fed as one buffer.
FramingChunkIndependent ==
    dispatched = OnDataFrames(<<>>, BufConcat(fconsumed)).msgs

\* a record split inside its payload, then a read that completes it and
\* carries a second record
SplitAndMergedRecords ==
    /\ fstream = <<>>
    /\ Len(fconsumed) >= 2
    /\ fconsumed[1] # <<>> /\ IndexOfNL(fconsumed[1], 1) = 0
    /\ Len(dispatched) >= 2
    /\ Len(dispatched[1]) > Len(fconsumed[1])
    /\ \E c \in 1..Len(fconsumed) :
          LET n1 == IndexOfNL(fconsumed[c], 1) IN
          n1 # 0 /\ IndexOfNL(fconsumed[c], n1 + 1) # 0

\* the first well-formed response for id i among msgs, 0 if none
RECURSIVE FirstResponseFor(_, _, _)
FirstResponseFor(i, msgs, k) ==
    IF k > Len(msgs) THEN 0
    ELSE IF ParseMessage(msgs[k]).ok /\ ParseMessage(msgs[k]).id = i THEN k
    ELSE FirstResponseFor(i, msgs, k + 1)

\* C6: a response completes exactly the call registered under its id, with
\* its result or its error, and no other call changes.
ResponsesCorrelatedById ==
    [][\A s \in 1..Len(socks) :
          (socks[s].st = "open" /\ socks'[s].st = "open"
              /\ Len(socks'[s].inb) < Len(socks[s].inb))
          => LET chunk == SubSeq(socks[s].inb, 1, Len(socks[s].inb) - Len(socks'[s].inb))
                 msgs == OnDataFrames(conn.pendingBuffers, chunk).msgs
             IN \A i \in 1..Len(calls) :
                   LET k == FirstResponseFor(i, msgs, 1) IN
                   IF i \in conn.callbacks /\ k # 0
                   THEN /\ i \notin conn'.callbacks
                        /\ calls'[i].status =
                             IF ParseMessage(msgs[k]).error THEN "rejRemote" ELSE "resolved"
                   ELSE /\ calls'[i] = calls[i]
                        /\ (i \in conn'.callbacks) = (i \in conn.callbacks)]_vars

\* the response to a later request arrived first and completed that request
\* only
LaterCallCompletedFirst ==
    \E i, j \in 1..Len(calls) :
        /\ i < j
        /\ calls[i].status = "pending" /\ i \in conn.callbacks
        /\ calls[j].status \in {"resolved", "rejRemote"} /\ j \notin conn.callbacks

----------------------------------------------------------------------------
(* Claims about the command loop                                           *)

\* the positions of all suspended calls
FramePositions ==
    UNION {{<<t, i>> : i \in 1..Len(tasks[t])} : t \in 1..Len(tasks)}

FrameAt(p) == tasks[p[1]][p[2]]

\* processQueue calls past the `processing` guard
DrainCalls == {p \in FramePositions : FrameAt(p).k = "drain"}

\* processLine calls made by a drain loop that have not returned
DrainedLinesInFlight == {p \in DrainCalls : Len(tasks[p[1]]) > p[2]}

\* C1: in the command loop at most one drain loop is active and at most one
\* processLine call of the drain is in flight (one call chain in all); a
\* line that arrives while a drain is active is only appended to
\* commandQueue: it starts no drain, invokes nothing and sends nothing.
SingleDrainSingleCommand ==
    /\ [](/\ Cardinality(DrainCalls) <= 1
          /\ Cardinality(DrainedLinesInFlight) <= 1
          /\ (closer # "off" => Len(tasks) <= 1)
          /\ (DrainCalls # {} => processing))
    /\ [][(arrived' # arrived /\ processing) =>
             /\ queue' = Append(queue, arrived'[Len(arrived')])
             /\ tasks' = tasks
             /\ invoked' = invoked
             /\ wire' = wire]_vars

\* C1 witness: a line arrived while the drain awaits the first command
LineQueuedBehindRunningCommand ==
    /\ processing /\ Len(queue) = 1 /\ Len(arrived) = 2
    /\ Len(tasks) = 1 /\ Top(tasks[1]).k = "run" /\ tasks[1][1].k = "drain"

BackendLines == {<<"snapshot">>, <<WS, "c", "e5">>}

\* the request the backend is to receive for the i-th line
RunRequest(i, l) ==
    [id |-> i, method |-> "run",
     arg |-> IF Trim(l) = <<"snapshot">> THEN <<"snapshot">> ELSE <<"click", "e5">>]

ConnectionStayedUp == Len(socks) = 1 /\ socks[1].st = "open"

OneOutstandingRequest ==
    /\ [](Cardinality(conn.callbacks) <= 1)
    /\ [][wire' # wire =>
             /\ \A id \in 1..Len(calls) : calls[id].status # "pending"
             /\ \A p \in FramePositions : FrameAt(p).k \notin {"run", "stop"}]_vars

\* C3 witness: the second request is pending, the first was answered
SecondRequestAfterFirstSettled ==
    /\ Len(wire) = 2 /\ conn.callbacks = {2}
    /\ calls[1].status = "resolved" /\ calls[2].status = "pending"

----------------------------------------------------------------------------
(* Claims about replay and the session                                     *)

\* the replay loops whose file had a command fail at run time
FailedReplays == {p \in FramePositions : FrameAt(p).k \in {"replay", "rrm", "rrmstep"}
                                          /\ FrameAt(p).failed}

\* C7: once a replayed command failed at run time, the cursor of that
\* replay never advances: no later command of the file is dispatched.
ReplayIsFailFast ==
    [][\A p \in FailedReplays :
          players'[FrameAt(p).pl].index = players[FrameAt(p).pl].index]_vars

\* C8: a recording (recording or paused) and a replay (a player set by
\* startReplay and not yet cleared by endReplay) are never active together.
RecordingExcludesReplay == ~(sess.recording /\ sess.player # 0)

\* C9: mode is 'replaying' from startReplay to endReplay, and the recorder
\* status otherwise.
ModeFollowsReplay ==
    Mode(World) = IF sess.player # 0 THEN "replaying" ELSE RecorderStatus(sess)

\* C10: a .replay rejected because the session is not idle leaves the
\* session state as it found it.
RejectedReplayChangesNothing ==
    trace.ev = "replay-rejected" => trace.post = trace.pre

----------------------------------------------------------------------------
(* Claims about the guards of SessionManager                               *)

\* C11: startRecording called while a recording (recording or paused) or a
\* replay (a player not yet cleared by endReplay) is active throws and
\* leaves recorder, paused flag and player as they were.
StartRecordingGuarded ==
    (/\ trace.ev = "startRecording"
     /\ (trace.pre.sess.recording \/ trace.pre.sess.player # 0))
    => (trace.err # NoErr /\ trace.post = trace.pre)

\* C12: .save, .pause and .discard issued while mode is idle fail with
\* 'Not recording', write no file and change nothing in the session; the
\* error stays inside processLine (the process keeps running).
IdleSessionCallsRejected ==
    (/\ trace.ev \in {"save", "togglePause", "discard"}
     /\ trace.pre.mode = "idle")
    => /\ trace.err = Err("Not recording", "")
       /\ trace.post = trace.pre
       /\ trace.post.mode = "idle"
       /\ trace.fsPost = trace.fsPre
       /\ exited = NotExited

\* C12 witness: .pause typed into an idle session was rejected
PauseRejectedWhenIdle ==
    /\ trace.ev = "togglePause" /\ trace.pre.mode = "idle"
    /\ trace.err.msg = "Not recording"
    /\ invoked # <<>> /\ invoked[Len(invoked)] = <<".pause">>

\* C13: a saved recording loads back as exactly the lines it had captured,
\* in order, and a replay of the file hands out exactly those commands.
RecordReplayRoundTrip ==
    /\ \A f \in FileNames :
          roundtrip.saved[f] # NoFile => LoadLines(fs[f]) = roundtrip.saved[f]
    /\ (roundtrip.pl # 0 /\ roundtrip.source # NoFile) =>
          /\ players[roundtrip.pl].commands = roundtrip.source
          /\ roundtrip.out = SubSeq(roundtrip.source, 1, players[roundtrip.pl].index)

\* C13 witness: two different captured commands were saved and replayed
TwoCapturedCommandsReplayed ==
    /\ roundtrip.pl # 0 /\ PlayerDone(players[roundtrip.pl])
    /\ roundtrip.source = <<<<"snapshot">>, <<"c", "e5">>>>
    /\ roundtrip.out = roundtrip.source
    /\ LoadLines(fs["r1"]) = roundtrip.source

\* the loops that feed a replay: the .replay branch and runReplayMode
ReplayLoops == {p \in FramePositions : FrameAt(p).k \in {"replay", "rrm", "rrmstep"}}

InlineReplays == {p \in FramePositions : FrameAt(p).k = "replay"}

\* the replayed command of loop p has not returned
CommandInFlight(p) == Len(tasks[p[1]]) > p[2]

\* C14: a replay feeds its commands to processLine one at a time, in file
\* order, each once: the loaded commands never change, the cursor moves
\* forward by one and only while the previous command has returned, the
\* command in flight is the one under the cursor, and no line of the
\* interactive queue is invoked while an inline replay is running.
ReplayFeedsInOrder ==
    /\ [](\A p \in ReplayLoops :
             CommandInFlight(p) =>
                /\ players[FrameAt(p).pl].index >= 1
                /\ tasks[p[1]][p[2] + 1].line
                      = players[FrameAt(p).pl].commands[players[FrameAt(p).pl].index])
    /\ [][/\ Len(players') >= Len(players)
          /\ \A q \in 1..Len(players) :
                /\ players'[q].commands = players[q].commands
                /\ players'[q].index \in {players[q].index, players[q].index + 1}]_vars
    /\ [][\A p \in ReplayLoops :
             (players'[FrameAt(p).pl].index # players[FrameAt(p).pl].index)
                => ~CommandInFlight(p)]_vars
    /\ [][InlineReplays # {} => invoked' = invoked]_vars

\* C14 witness: the second command of an inline replay is in flight while a
\* line typed meanwhile waits in the queue
SecondReplayedCommandInFlight ==
    \E p \in InlineReplays :
        /\ CommandInFlight(p)
        /\ players[FrameAt(p).pl].index = 2
        /\ tasks[p[1]][p[2] + 1].k = "run"
        /\ tasks[p[1]][p[2] + 1].line = <<"c", "e5">>
        /\ Len(queue) = 1

----------------------------------------------------------------------------
(* Claims about failures, shutdown and side effects                        *)

\* the call chain t is suspended in a frame of kind k and resumes in this step
Resumes(t, k) == Top(tasks[t]).k = k /\ tasks' # tasks

\* the conn.run awaited by frame fr did not resolve
RunFailed(fr) == fr.id = 0 \/ calls[fr.id].status # "resolved"

\* C15: the handler of a failed command calls connect() once if the
\* connection is down when it runs and not at all if it is up; neither it
\* nor the continuation after the reconnection sends anything, and that
\* continuation returns from processLine without another connect().
ReconnectOnceIfDisconnected ==
    /\ [][\A t \in 1..Len(tasks) :
             Resumes(t, "run") =>
                /\ wire' = wire
                /\ Len(socks') = Len(socks)
                      + (IF RunFailed(Top(tasks[t])) /\ ~Connected(World) THEN 1 ELSE 0)]_vars
    /\ [][\A t \in 1..Len(tasks) :
             Resumes(t, "reconn") =>
                /\ wire' = wire
                /\ Len(socks') = Len(socks)
                /\ tasks' = [tasks EXCEPT ![t] = Pop(tasks[t])]]_vars

\* C15 witness: the first command failed remotely on a live connection (no
\* reconnection), the second failed with the connection down and its
\* single reconnection succeeded
ReconnectedAfterSecondFailure ==
    /\ Len(tasks) = 1 /\ Top(tasks[1]).k = "reconn"
    /\ Len(calls) = 2 /\ calls[1].status = "rejRemote"
    /\ calls[2].status \in {"rejClosed", "rejWrite"}
    /\ Len(socks) = 2 /\ socks[2].connp = "resolved"
    /\ Len(wire) = 2

\* the reconnections awaited by handlers of failed commands
ReconnectsAwaited == {p \in FramePositions : FrameAt(p).k = "reconn"}

\* C16: a failed command never stalls the sequencer: a reconnection its
\* handler awaits is settled once the attempt is over, so processLine
\* returns to the drain; and when no call chain is suspended the loop is
\* idle with an empty queue, ready for the next line.
FailureNeverStalls ==
    /\ \A p \in ReconnectsAwaited :
          socks[FrameAt(p).id].connp = "pending" => socks[FrameAt(p).id].st = "connecting"
    /\ (closer # "off" /\ tasks = <<>>) => (~processing /\ queue = <<>>)

\* the lines of arrived that processQueue appends to the history file
RECURSIVE HistoryOf(_)
HistoryOf(lines) ==
    IF lines = <<>> THEN <<>>
    ELSE (IF Trim(Head(lines)) # <<>> THEN <<Trim(Head(lines))>> ELSE <<>>)
            \o HistoryOf(Tail(lines))

\* C17: when the 'close' handler closes the connection and exits, no drain
\* is active, the queue is empty and every line that arrived has been
\* processed to the end: invoked, returned and written to the history.
ShutdownAfterDrain ==
    trace.ev = "shutdown" =>
        /\ ~processing /\ queue = <<>>
        /\ tasks = <<>>
        /\ invoked = arrived
        /\ history = HistoryOf(arrived)
        /\ exited = 0 /\ ~Connected(World)

\* C17 witness: end of input came while two commands were still queued or
\* running; the handler waited for both before it shut down
ShutdownWaitedForCommands ==
    /\ trace.ev = "shutdown" /\ closer = "polling"
    /\ Len(arrived) = 2 /\ Len(wire) = 2
    /\ \A id \in 1..2 : calls[id].status = "resolved"

\* the recorder after it was offered line
Offered(line) ==
    IF sess.recording /\ ~sess.paused
    THEN [sess EXCEPT !.commands = Append(@, line)]
    ELSE sess

\* a conn.run resolved and its processLine continuation runs in this step
RunSucceeds == \E t \in 1..Len(tasks) : Resumes(t, "run") /\ ~RunFailed(Top(tasks[t]))

IdsStartAtOneAndIncrease ==
    /\ [](/\ \A i \in 1..Len(wire) : wire[i].id = i
          /\ conn.nextId = Len(wire) + 1)
    /\ [][conn'.nextId >= conn.nextId]_vars

\* C19 witness: a second request was sent on a second socket, after the
\* first socket was closed
SentAcrossReconnect ==
    /\ Len(wire) = 2 /\ Len(calls) = 2
    /\ calls[1].sock = 1 /\ calls[2].sock = 2
    /\ socks[1].st = "closed"

\* C20: close() settles nothing by itself and leaves the pending calls to
\* the 'close' handler of the socket, which fails them all; a call that is
\* settled leaves the table and is never settled again; once a socket's
\* 'close' was handled no call sent on it is pending; and close() while
\* this.socket is null changes nothing.
CloseIsIdempotent ==
    /\ [](\A id \in conn.callbacks : id \in 1..Len(calls) /\ calls[id].status = "pending")
    /\ [](\A id \in 1..Len(calls) :
             socks[calls[id].sock].st = "closed" => calls[id].status # "pending")
    /\ [][\A id \in 1..Len(calls) :
             calls[id].status # "pending" => calls'[id].status = calls[id].status]_vars
    /\ [][trace'.ev = "close" /\ trace' # trace =>
             /\ calls' = calls /\ wire' = wire
             /\ conn.socket = 0 => conn' = conn /\ socks' = socks]_vars

\* C20 witness: close() was called again while the first close() had
\* destroyed the socket and its 'close' event, which fails the outstanding
\* call, has not been emitted yet
ClosedTwiceBeforeCloseEvent ==
    /\ trace.ev = "close" /\ trace.socket = 0
    /\ Len(socks) = 1 /\ socks[1].st = "destroyed" /\ conn.socket = 0
    /\ Len(calls) = 1 /\ calls[1].status = "pending" /\ 1 \in conn.callbacks

\* a record _dispatch has nothing to do with in world W
IsNoise(W, msg) ==
    LET obj == ParseMessage(msg) IN ~obj.ok \/ obj.id = 0 \/ obj.id \notin W.conn.callbacks

\* _dispatch of msgs with the noise left out
RECURSIVE DispatchResponses(_, _)
DispatchResponses(W, msgs) ==
    IF msgs = <<>> THEN W
    ELSE IF IsNoise(W, Head(msgs)) THEN DispatchResponses(W, Tail(msgs))
    ELSE DispatchResponses(Dispatch(W, Head(msgs)), Tail(msgs))

\* the records the daemon can put on the stream
AllRecords ==
    {<<"xx">>, <<"{}">>} \cup {<<b, k>> : b \in {"i0"} \cup {IdBytes[i] : i \in 1..Len(IdBytes)},
                                        k \in {"ok", "er"}}

\* C21: a record that is not JSON, has no id or has an id without a pending
\* call changes nothing when it is dispatched, and a read that carries such
\* records leaves the calls and the connection as the responses among them
\* alone would: nothing is failed, nothing is closed, no response is lost.
NoiseDroppedWithoutEffect ==
    /\ [](\A m \in AllRecords : IsNoise(World, m) => Dispatch(World, m) = World)
    /\ [][\A s \in 1..Len(socks) :
             (socks[s].st = "open" /\ socks'[s].st = "open"
                 /\ Len(socks'[s].inb) < Len(socks[s].inb))
             => LET chunk == SubSeq(socks[s].inb, 1, Len(socks[s].inb) - Len(socks'[s].inb))
                    msgs == OnDataFrames(conn.pendingBuffers, chunk).msgs
                    W == DispatchResponses(World, msgs)
                IN /\ calls' = W.calls
                   /\ conn'.callbacks = W.conn.callbacks
                   /\ conn'.socket = conn.socket /\ conn'.nextId = conn.nextId
                   /\ wire' = wire
                   /\ \A t \in 1..Len(socks) : socks'[t].st = socks[t].st]_vars

\* C21 witness: the daemon wrote a record that is not JSON while a call was
\* pending and unanswered; the record was read, and the response written
\* after it resolved the call
ResolvedAfterNoise ==
    \E n \in 1..Len(noise) : \E i \in 1..Len(calls) :
        /\ noise[n].rec = <<"xx">>
        /\ i \in noise[n].waiting
        /\ calls[i].sock = noise[n].sock
        /\ calls[i].status = "resolved"

\* C22: send() on a connection whose socket is null or destroyed throws
\* 'Not connected to daemon' and changes nothing: no id is taken, no call
\* is registered, nothing is written, then or later; the wire only grows
\* in a send() that found the connection up.
SendWhenDisconnectedHasNoEffect ==
    /\ [](~Connected(World) =>
             LET r == ConnSend(World, "run", <<"snapshot">>) IN
             r.w = World /\ r.id = 0 /\ r.err = Err("Not connected to daemon", ""))
    /\ [][(trace'.ev = "send" /\ ~Connected(World)) =>
             /\ trace'.err = Err("Not connected to daemon", "")
             /\ conn' = conn /\ calls' = calls /\ wire' = wire /\ socks' = socks]_vars
    /\ [][wire' # wire =>
             /\ Connected(World) /\ trace'.ev = "send" /\ trace'.err = NoErr
             /\ Len(wire') = Len(wire) + 1]_vars

\* C22 witness: after one request went out the socket was destroyed, its
\* 'close' is still to come, and a send() was refused
SendRefusedOnDestroyedSocket ==
    /\ trace.ev = "send" /\ trace.err = Err("Not connected to daemon", "")
    /\ conn.socket # 0 /\ socks[conn.socket].st = "destroyed"
    /\ Len(wire) = 1 /\ conn.nextId = 2 /\ conn.callbacks = {1}

\* C23: in mode recording, record(line) appends the trimmed line at the end
\* of the buffer, unless the trimmed line is empty or starts with '.', and
\* touches nothing else; in mode idle it changes nothing; and the buffer
\* only ever grows by one trimmed, non-empty, non-meta line, while recording.
RecordAppendsTrimmedCommands ==
    /\ [](\A l \in OfferedLines :
             LET W == Record(World, l) IN
             /\ Mode(World) = "recording" =>
                   W = [World EXCEPT !.sess.commands =
                           IF Trim(l) = <<>> \/ StartsWithDot(Trim(l))
                           THEN @ ELSE Append(@, Trim(l))]
             /\ Mode(World) = "idle" => W = World)
    /\ [][Len(sess'.commands) > Len(sess.commands) =>
             /\ Mode(World) = "recording"
             /\ \E l \in OfferedLines :
                   /\ Trim(l) # <<>> /\ ~StartsWithDot(Trim(l))
                   /\ sess' = [sess EXCEPT !.commands = Append(@, Trim(l))]]_vars

\* C23 witness: a recording that was offered a padded line holds it trimmed,
\* after the line offered before it
PaddedLineCapturedTrimmed ==
    /\ Mode(World) = "recording"
    /\ sess.commands = <<<<"snapshot">>, <<"c", "e5">>>>
    /\ sess.filename = "r1"

\* C24: a togglePause that is accepted turns recording into paused and
\* paused into recording and leaves the buffer and the filename alone; the
\* buffer of a recording is always the commands executed while its mode was
\* recording, in order; and save writes exactly those.
PauseSkipsLines ==
    /\ [][(trace'.ev = "togglePause" /\ trace'.err = NoErr /\ trace' # trace) =>
             /\ Mode(World) \in {"recording", "paused"}
             /\ Mode(World)' = (IF Mode(World) = "recording" THEN "paused" ELSE "recording")
             /\ sess'.commands = sess.commands /\ sess'.filename = sess.filename
             /\ fs' = fs]_vars
    /\ [](sess.recording => sess.commands = roundtrip.offered)
    /\ []((trace.ev = "save" /\ trace.err = NoErr) =>
             /\ trace.fsPost[trace.pre.sess.filename] = SavedLines(roundtrip.offered)
             /\ LoadLines(trace.fsPost[trace.pre.sess.filename]) = roundtrip.offered)

\* C24 witness: a recording was paused and resumed, a command executed while
\* it was paused was left out, and the commands executed before and after
\* were saved
SavedAroundPause ==
    /\ trace.ev = "save" /\ trace.err = NoErr
    /\ roundtrip.skipped
    /\ roundtrip.offered = <<<<"snapshot">>, <<"c", "e5">>>>
    /\ LoadLines(fs["r1"]) = roundtrip.offered

\* C25: in mode recording or paused, save() writes header, buffer and
\* final newline to the recording's file and nothing else, returns that
\* filename with the number of commands captured since startRecording, and
\* leaves mode idle with an empty buffer; discard() leaves mode idle with
\* an empty buffer and every file as it was.
SaveWritesDiscardDoesNot ==
    /\ (Mode(World) \in {"recording", "paused"} =>
             LET s == Save(World)
                 d == Discard(World)
             IN /\ s.err = NoErr /\ d.err = NoErr
                /\ s.w.fs = [fs EXCEPT ![sess.filename] = SavedLines(sess.commands)]
                /\ s.ret = [filename |-> sess.filename, count |-> Len(roundtrip.offered)]
                /\ Mode(s.w) = "idle" /\ s.w.sess.commands = <<>>
                /\ d.w.fs = fs
                /\ Mode(d.w) = "idle" /\ d.w.sess.commands = <<>>)
    /\ ((trace.ev = "save" /\ trace.err = NoErr) =>
             /\ trace.pre.mode \in {"recording", "paused"}
             /\ trace.ret = [filename |-> trace.pre.sess.filename,
                             count |-> Len(roundtrip.offered)]
             /\ trace.fsPost = [trace.fsPre EXCEPT ![trace.pre.sess.filename] =
                                   SavedLines(roundtrip.offered)]
             /\ trace.post.mode = "idle" /\ trace.post.sess.commands = <<>>)
    /\ ((trace.ev = "discard" /\ trace.err = NoErr) =>
             /\ trace.pre.mode \in {"recording", "paused"}
             /\ trace.fsPost = trace.fsPre
             /\ trace.post.mode = "idle" /\ trace.post.sess.commands = <<>>)

\* C25 witness: a paused recording of two commands was saved
PausedRecordingSaved ==
    /\ trace.ev = "save" /\ trace.err = NoErr
    /\ trace.pre.mode = "paused"
    /\ trace.ret = [filename |-> "r1", count |-> 2]
    /\ Mode(World) = "idle" /\ sess.commands = <<>>
    /\ fs["r1"] = SavedLines(<<<<"snapshot">>, <<"c", "e5">>>>)

\* the lines of content trimmed, without the blank ones and those that
\* start with '#'
KeptLines(content) ==
    SelectSeq([i \in 1..Len(content) |-> Trim(content[i])],
              LAMBDA l : l # <<>> /\ ~StartsWithHash(l))

\* C26: every player holds the lines of its file trimmed and in file
\* order, without the blank lines and the lines whose first non-blank
\* character is '#', and hands out exactly those.
LoadKeepsCommandLines ==
    /\ LoadLines(fs["f2"]) = KeptLines(fs["f2"])
    /\ \A p \in 1..Len(players) : players[p].commands = KeptLines(fs["f2"])
    /\ roundtrip.pl # 0 =>
          roundtrip.out = SubSeq(KeptLines(fs["f2"]), 1, players[roundtrip.pl].index)

\* C26 witness: a file with an indented comment, a padded command and a
\* blank line was loaded and played to its end
IndentedCommentDropped ==
    /\ fs["f2"] = <<<<WS, "# note">>, <<WS, "c", "e5", WS>>, <<WS>>>>
    /\ roundtrip.pl # 0 /\ PlayerDone(players[roundtrip.pl])
    /\ roundtrip.out = <<<<"c", "e5">>>>

\* the line is a user-input error (unknown command name, verify-* command
\* without its arguments) or asks the session for what its mode forbids
RejectedLine(W, rawLine) ==
    LET line == Trim(rawLine) IN
    /\ line # <<>>
    /\ \/ line[1] = ".record" /\ Mode(W) # "idle"
       \/ line \in {<<".save">>, <<".pause">>, <<".discard">>}
             /\ Mode(W) \notin {"recording", "paused"}
       \/ line[1] = ".replay" /\ Len(line) >= 2 /\ Mode(W) # "idle"
       \/ ~StartsWithDot(line) /\ ResolveAlias(line[1]) \notin KnownCommands
       \/ ResolveAlias(line[1]) \in VerifyCommands /\ Len(line) = 1

\* every line the model feeds to processLine
AllLines == InputLines \cup UNION {{fs[f][i] : i \in 1..Len(fs[f])} : f \in {"f1", "f2", "f3"}}

\* C27: processLine on a line that is a user-input error or a session state
\* conflict returns without suspending and without a request, a counted
\* command or a captured line; and the step in which the command loop runs
\* such a line leaves wire, calls, commandCount and recording as they were.
RejectedLinesStayLocal ==
    /\ [](\A l \in AllLines :
             RejectedLine(World, l) =>
                LET r == ProcessLine(World, l) IN
                /\ r.frames = <<>>
                /\ r.w.wire = wire /\ r.w.calls = calls /\ r.w.conn = conn
                /\ r.w.commandCount = commandCount
                /\ r.w.sess.commands = sess.commands)
    /\ [][(invoked' # invoked /\ RejectedLine(World, invoked'[Len(invoked')])) =>
             /\ wire' = wire /\ calls' = calls
             /\ commandCount' = commandCount
             /\ sess'.commands = sess.commands]_vars

\* C27 witness: while recording, an unknown command and a .replay were
\* typed and rejected; nothing was sent, counted or captured
UnknownAndConflictRejected ==
    /\ invoked = <<<<"bogus">>, <<".replay", "f1">>>>
    /\ trace.ev = "replay-rejected"
    /\ Mode(World) = "recording" /\ sess.commands = <<>>
    /\ wire = <<>> /\ commandCount = 0

\* C28: when the program started with --replay has exited, the connection
\* is closed, and the exit status is 0 exactly when the replay was started
\* and no request of a replayed command failed (status 1 otherwise).
ReplayModeExitStatus ==
    (opts.replay # "" /\ exited # NotExited) =>
        /\ conn.socket = 0
        /\ exited \in {0, 1}
        /\ (exited = 0) = (/\ players # <<>>
                           /\ \A id \in 1..Len(calls) : calls[id].status = "resolved")

\* the program runs a replay started with --step: its player is the first
StepReplay == opts.replay # "" /\ opts.step /\ players # <<>>

\* runReplayMode waits for a key press
WaitingForKey == \E t \in 1..Len(tasks) : Top(tasks[t]).k = "rrmstep"

\* C29: in a replay started in step mode, the cursor moves past the first
\* command only in the step in which a key press ends a wait of the loop,
\* and the loop never waits once the last command has been handed out.
StepModeWaitsBetweenCommands ==
    /\ [][(StepReplay /\ players[1].index >= 1
              /\ players'[1].index # players[1].index) => WaitingForKey]_vars
    /\ []((StepReplay /\ WaitingForKey) => ~PlayerDone(players[1]))

\* the positions of the tokens that set option b on or off
Mentions(tokens, b) ==
    {i \in 1..Len(tokens) : tokens[i] \in {<<"--", b>>, <<"--no-", b>>}}

\* C30: in what parseInput returns, a declared boolean option the line does
\* not mention is absent, one given as --name is true and one given as
\* --no-name is false (the last mention deciding when there are several).
BooleanFlagsStripped ==
    (parse.done /\ parse.tokens # <<>>) =>
        \A b \in BooleanOptions :
            LET m == Mentions(parse.tokens, b) IN
            IF m = {} THEN b \notin DOMAIN parse.args.opt
            ELSE LET last == CHOOSE i \in m : \A j \in m : j <= i IN
                 /\ b \in DOMAIN parse.args.opt
                 /\ parse.args.opt[b] = (parse.tokens[last] = <<"--", b>>)

\* C30 witness: a line that sets one boolean option, negates another and
\* leaves the rest out was parsed
OneSetOneNegated ==
    /\ parse.done
    /\ parse.tokens = <<<<"click">>, <<"--", "fullPage">>, <<"--no-", "headed">>>>
    /\ DOMAIN parse.args.opt = {"fullPage", "headed"}
    /\ parse.args.opt["fullPage"] = TRUE /\ parse.args.opt["headed"] = FALSE

\* the quote that is open before character i of the line, "" if none
RECURSIVE QuoteBefore(_, _)
QuoteBefore(line, i) ==
    IF i = 1 THEN ""
    ELSE LET q == QuoteBefore(line, i - 1)
             ch == line[i - 1]
         IN IF q # "" THEN (IF ch = q THEN "" ELSE q)
            ELSE IF ch \in Quotes THEN ch ELSE ""

\* character i opens or closes a quoted span
Delimits(line, i) ==
    IF QuoteBefore(line, i) = "" THEN line[i] \in Quotes ELSE line[i] = QuoteBefore(line, i)

\* character i is a blank outside of every quoted span
Separates(line, i) == QuoteBefore(line, i) = "" /\ line[i] \in Blanks

\* the line with single and double quotes exchanged
SwapQuotes(chars) ==
    [i \in 1..Len(chars) |-> IF chars[i] = SQ THEN DQ ELSE IF chars[i] = DQ THEN SQ ELSE chars[i]]

\* C31: tokenize yields a result for every line; the tokens are non-empty and
\* hold, in order, exactly the characters of the line that are neither a
\* delimiting quote nor a blank outside a quoted span (so the quotes are not
\* part of a token and everything inside a span is kept, up to the end of
\* the line when the span is not closed); two kept characters are in the same
\* token exactly when no blank outside a span lies between them; and
\* exchanging the two kinds of quote in the line exchanges them in the tokens
\* and changes nothing else.
TokenizeQuoteAware ==
    parse.done =>
        LET line == parse.line
            tokens == parse.tokens
            Kept == {i \in 1..Len(line) : ~Delimits(line, i) /\ ~Separates(line, i)}
            KeptAt(n) == CHOOSE p \in Kept : Cardinality({q \in Kept : q <= p}) = n
            flat == BufConcat(tokens)
            TokenOf(n) == CHOOSE t \in 1..Len(tokens) :
                              /\ Len(BufConcat(SubSeq(tokens, 1, t))) >= n
                              /\ Len(BufConcat(SubSeq(tokens, 1, t - 1))) < n
        IN /\ \A t \in 1..Len(tokens) : tokens[t] # <<>>
           /\ Len(flat) = Cardinality(Kept)
           /\ \A n \in 1..Len(flat) : flat[n] = line[KeptAt(n)]
           /\ \A n \in 1..(Len(flat) - 1) :
                  (TokenOf(n) = TokenOf(n + 1)) =
                      ~(\E i \in (KeptAt(n) + 1)..(KeptAt(n + 1) - 1) : Separates(line, i))
           /\ Tokenize(SwapQuotes(line)) = [t \in 1..Len(tokens) |-> SwapQuotes(tokens[t])]

\* C31 witness: a line whose quoted span holds a blank and is never closed
\* was tokenized into the one token the span holds
UnterminatedSpanTokenized ==
    /\ parse.done
    /\ parse.line = <<"a", DQ, " ", "a">>
    /\ parse.tokens = <<<<"a", " ", "a">>>>

\* the 'close' event of socket s is delivered in this step
CloseEventOf(s) == s \in 1..Len(socks) /\ socks[s].st = "destroyed" /\ socks'[s].st = "closed"

\* C32: the 'close' event of a socket that a later connect() has superseded
\* leaves the newer connection alone: while the newer socket is connected,
\* this.socket still refers to it after the event and every call pending on
\* it is still pending and still registered.
StaleCloseLeavesNewerConnection ==
    [][\A s \in 1..MaxSocks :
          (CloseEventOf(s) /\ conn.socket # s /\ Connected(World)) =>
              /\ conn'.socket = conn.socket
              /\ \A id \in conn.callbacks :
                     calls[id].sock = conn.socket =>
                         id \in conn'.callbacks /\ calls'[id].status = "pending"]_vars

\* C33: every connect() settles with the outcome of its attempt: once the
\* connection is established its promise is resolved, and once the attempt
\* has failed its promise is rejected; no attempt whose outcome is known
\* leaves its caller waiting.
ConnectSettlesWithOutcome ==
    \A s \in 1..Len(socks) :
        /\ socks[s].st = "open" => socks[s].connp = "resolved"
        /\ socks[s].st \in {"destroyed", "closed"} => socks[s].connp \in {"resolved", "rejected"}

\* C34: what a closed connection left in the framing buffer never garbles a
\* record of a later connection: a response whose bytes have all been read
\* from its open socket has been dispatched as sent, so its call is no
\* longer pending.
ResponseReadIsDispatched ==
    \A id \in 1..Len(calls) :
        (/\ calls[id].answered
         /\ socks[calls[id].sock].st = "open"
         /\ socks[calls[id].sock].inb = <<>>) => calls[id].status # "pending"

\* C35: no wake-up is lost in the sequencer: whenever the program waits for
\* its next event, a non-empty commandQueue has a drain, and a set
\* `processing` flag has one too (a processQueue call suspended in its loop);
\* a drain that resumes hands the head of the queue to processLine, and it
\* clears the flag and ends only when it finds the queue empty.
NoLostWakeup ==
    /\ [](/\ queue # <<>> => processing
          /\ processing => DrainCalls # {}
          /\ (closer # "off" /\ DrainCalls = {}) => invoked = arrived)
    /\ [][\A t \in 1..Len(tasks) :
             Resumes(t, "drain") =>
                 IF queue # <<>>
                 THEN invoked' = Append(invoked, Head(queue)) /\ processing'
                 ELSE ~processing' /\ Len(tasks') = Len(tasks) - 1]_vars

\* C35 witness: a line arrived while the drain's last command had returned
\* and the drain had not yet resumed
LineArrivedAsDrainFinishes ==
    /\ Running /\ processing
    /\ Len(queue) = 1
    /\ \E t \in 1..Len(tasks) : Len(tasks[t]) = 1 /\ Top(tasks[t]).k = "drain"

\* C36: send registers the call before the write of its request begins: the
\* step that hands a request to the socket leaves its id in the table with
\* the write still outstanding, and from then on, whether the write callback
\* has run or not, a pending call is in the table, so that the response
\* record for its id, dispatched at that moment, finds it and completes it.
RegisteredBeforeWrite ==
    /\ [](/\ Len(wire) = Len(calls)
          /\ \A id \in 1..Len(calls) :
                 calls[id].status = "pending" =>
                     /\ id \in conn.callbacks
                     /\ wire[id].id = id
                     /\ \A kind \in {"ok", "er"} :
                            LET W == Dispatch(World, <<IdBytes[id], kind>>) IN
                            /\ W.calls[id].status = IF kind = "er" THEN "rejRemote" ELSE "resolved"
                            /\ id \notin W.conn.callbacks)
    /\ [][Len(wire') > Len(wire) =>
             /\ Len(wire') \in conn'.callbacks
             /\ calls'[Len(wire')].wcb
             /\ calls'[Len(wire')].status = "pending"]_vars

\* C36 witness: a response completed its call while the callback of the
\* write was still outstanding
CompletedBeforeWriteCallback ==
    \E id \in 1..Len(calls) : calls[id].status = "resolved" /\ calls[id].wcb

\* the callback of the write of request id runs in this step, with an error
WriteFailedFor(id) ==
    /\ id \in 1..Len(calls) /\ calls[id].wcb /\ ~calls'[id].wcb
    /\ socks[calls[id].sock].st # "open"

\* C37: when the write of a request fails, its send is rejected with the
\* write error (a send already settled keeps its outcome), its id leaves the
\* table, every other call and table entry is as before, and neither the id
\* counter nor the wire changes, so the id is not issued again.
WriteFailureRejectsOnlyItsCall ==
    [][\A id \in 1..MaxIds :
          WriteFailedFor(id) =>
              /\ calls'[id].status = IF calls[id].status = "pending" THEN "rejWrite"
                                     ELSE calls[id].status
              /\ conn'.callbacks = conn.callbacks \ {id}
              /\ \A j \in 1..Len(calls) : j # id => calls'[j] = calls[j]
              /\ Len(calls') = Len(calls)
              /\ conn'.nextId = conn.nextId /\ conn.nextId > id
              /\ conn'.socket = conn.socket
              /\ wire' = wire]_vars

\* C37 witness: one send was rejected by its failed write while another call
\* is still pending in the table
WriteRejectedOtherPending ==
    \E id, j \in 1..Len(calls) :
        /\ calls[id].status = "rejWrite" /\ id \notin conn.callbacks
        /\ calls[j].status = "pending" /\ j \in conn.callbacks

\* the last step was a save whose file could not be written
SaveWriteFailed == trace.ev = "save" /\ trace.err.msg = "EACCES"

\* C38: a save whose file cannot be written reports the error of the file
\* system and changes nothing: mode (recording or paused), captured lines,
\* filename and files are as before the call, and a discard or a save made
\* next is accepted or fails again on that same recording.
FailedSaveKeepsRecording ==
    /\ [](SaveWriteFailed =>
              /\ trace.pre.mode \in {"recording", "paused"}
              /\ trace.post = trace.pre
              /\ trace.fsPost = trace.fsPre
              /\ SessionView(World) = trace.pre
              /\ fs = trace.fsPre)
    /\ [][(trace'.ev = "save" /\ Mode(World) \in {"recording", "paused"}
                              /\ sess.filename \in Unwritable)
             => trace'.err = Err("EACCES", sess.filename)]_vars
    /\ [][(SaveWriteFailed /\ trace'.ev = "discard")
             => trace'.err = NoErr /\ trace'.pre = SessionView(World)
                                   /\ trace'.post.mode = "idle"]_vars

\* C38 witness: a paused recording with two captured lines survived the
\* failed write of its file
FailedSaveWhilePaused ==
    /\ SaveWriteFailed
    /\ Mode(World) = "paused"
    /\ sess.filename = "ro"
    /\ Len(sess.commands) = 2

\* the session files that do not exist
MissingFiles == {f \in FileNames : fs[f] = NoFile}

\* C39: while the session is idle, startReplay on a file that does not exist
\* throws 'File not found' and changes nothing (mode idle, no player created,
\* step flag as before); `.replay` on such a file returns at once, reports
\* the error, sends nothing, and leaves the mode idle with no player.
MissingReplayFileFails ==
    /\ \A f \in MissingFiles :
           Mode(World) = "idle" =>
               /\ \A st \in BOOLEAN :
                      LET r == StartReplay(Now, f, st) IN
                      r.err = Err("File not found", f) /\ r.pl = 0 /\ r.w = Now
               /\ LET r == ProcessLine(Now, <<".replay", f>>) IN
                  /\ r.frames = <<>>
                  /\ r.w.trace.ev = "replay-notfound" /\ r.w.trace.file = f
                  /\ r.w.wire = wire /\ r.w.calls = calls /\ r.w.conn = conn
                  /\ r.w.players = players /\ r.w.fs = fs
                  /\ r.w.commandCount = commandCount
                  /\ Mode(r.w) = "idle" /\ r.w.sess.player = 0
    /\ trace.ev = "replay-notfound" =>
           /\ trace.pre.mode = "idle" /\ trace.post.mode = "idle"
           /\ trace.post.players = trace.pre.players
           /\ Mode(World) = "idle" /\ sess.player = 0

\* C39 witness: the command loop processed `.replay r1` before any recording
\* was saved to r1
MissingFileReplayReported ==
    /\ trace.ev = "replay-notfound" /\ trace.file = "r1"
    /\ \E i \in 1..Len(invoked) : invoked[i] = <<".replay", "r1">>
    /\ wire = <<>>

====
